---- MODULE Spec2Model ----
(***************************************************************************)
(* A model of the registers library: the log engine (registers/log.py),    *)
(* the Register (registers/register.py), the Patch (registers/patch.py)    *)
(* and the Merkle layer (registers/merkle.py).                             *)
(*                                                                         *)
(* Python objects that are mutated after they are shared are modelled as   *)
(* heap objects: an Entry is an index into `heap` (its position field is   *)
(* rewritten by Log.insert), a command list is an index into `lists`       *)
(* (list.extend / list.insert / list.append rewrite it in place).          *)
(*                                                                         *)
(* SHA-256 is a symbolic injective function: sha256(x) is the tagged       *)
(* tuple <<"sha256", x>>, so two digests are equal exactly when their      *)
(* preimages are.                                                          *)
(***************************************************************************)
EXTENDS Integers, Sequences, FiniteSets, TLC

VARIABLES
    heap,       \* the Entry objects allocated so far (Entry fields, position mutable)
    lists,      \* the command-list objects allocated so far
    patches,    \* the Patch objects created so far
    registers,  \* the Register objects constructed so far
    outcome,    \* what the last operation did (its result, exception, collect trace)
    applies     \* the number of Register.apply calls made so far

vars == <<heap, lists, patches, registers, outcome, applies>>

-----------------------------------------------------------------------------
(* Bounds of the model and the small input sets the operations draw from.  *)

MaxRows == 2        \* blobs given to Patch(schema, blobs, timestamp)
MaxCmds == 2        \* commands of a parsed patch file
MaxPatches == 1     \* Patch objects created in one run
MaxInitRows == 1    \* add-item/append-entry pairs of the RSF file a Register is built from
MaxRegisters == 2   \* Register objects constructed in one run of SpecShared
MaxApplies == 3     \* Register.apply calls in one run
MaxMetaRows == 3    \* metadata rows of the RSF file a Register is built from in SpecMeta
MaxFileLines == 10  \* lines of the RSF file that `patch create --apply` appends to
MaxLeaves == 7      \* leaves of a merkle.Tree in SpecMerkle
MaxKeyLen == 2      \* chunks of the key of an Entry in SpecRsf
MaxLines == 2       \* lines of a stream and commands of a dumped list in SpecRsf
MaxTokens == 2      \* elements of a list value given to validate
MaxFields == 2      \* items of the dictionary given to validate

Keys == {"k1", "k2"}
Vals == {"v1", "v2"}
Timestamps == {"t1", "t2"}
InitTimestamp == "t1"
PatchTimestamp == "t2"

None == 0           \* Python's None for an Entry position / an absent object id

\* schema.primary_key of the register the patches are built for
PrimaryKey == "pk"

-----------------------------------------------------------------------------
(* registers/hash.py, registers/blob.py, registers/entry.py                *)

sha256(x) == <<"sha256", x>>

Hash(algorithm, hexdigest) == [algorithm |-> algorithm, digest |-> hexdigest]

\* Hash.__repr__
hash_repr(h) == <<h.algorithm, ":", h.digest>>

\* Blob(data): data is a mapping attribute-name -> value
Blob(k, v) == [pk |-> k, val |-> v]

Blobs == {Blob("k1", "v1"), Blob("k1", "v2"), Blob("k2", "v1")}

\* the blob of the metadata entry `name`: the register identifier
NameBlob(n) == [name |-> n]

\* the blob of a metadata entry `field:<uid>`: an attribute of the schema
FieldBlob(f) == [cardinality |-> "1", datatype |-> "string", field |-> f, text |-> "text"]

\* every attribute name a blob of the model may carry, in sorted order
SortedAttrs == <<"cardinality", "datatype", "field", "name", "pk", "text", "val">>

RECURSIVE json_pairs(_, _)
json_pairs(data, i) ==
    IF i > Len(SortedAttrs) THEN <<>>
    ELSE IF SortedAttrs[i] \in DOMAIN data
         THEN <<<<SortedAttrs[i], data[SortedAttrs[i]]>>>> \o json_pairs(data, i + 1)
         ELSE json_pairs(data, i + 1)

\* Blob.to_json: json.dumps(data, sort_keys=True, separators=(',', ':'))
blob_to_json(blob) == <<"json-object">> \o json_pairs(blob, 1)

\* Blob.digest
blob_digest(blob) == Hash("sha-256", sha256(blob_to_json(blob)))

\* Blob.get
blob_get(blob, key) == blob[key]

Scopes == {"user", "system"}

\* Entry(key, scope, timestamp, blob_hash, position=None)
Entry(key, scope, timestamp, blob_hash) ==
    [key |-> key, scope |-> scope, timestamp |-> timestamp,
     blob_hash |-> blob_hash, position |-> None]

\* Entry.to_dict / Entry.to_json: the values in the order of the keys
\* index-entry-number, entry-number, entry-timestamp, key, item-hash
entry_to_json(e) ==
    <<"json-array", e.position, e.position, e.timestamp, e.key, hash_repr(e.blob_hash)>>

\* Entry.bytes: the entry JSON, UTF-8 encoded (the leaf of the Merkle tree)
entry_bytes(e) == entry_to_json(e)

\* Entry.set_position on the Entry object oid
set_position(h, oid, number) == [h EXCEPT ![oid].position = number]

-----------------------------------------------------------------------------
(* registers/merkle.py                                                     *)

hash_empty == sha256(<<>>)

hash_leaf(leaf) == sha256(<<"00", leaf>>)

hash_node(left, right) == sha256(<<"01", left, right>>)

RECURSIVE build_pairs(_, _)
\* the zip(level[0::2], level[1::2]) loop of build_level, from index i
build_pairs(level, i) ==
    IF i + 1 > Len(level) THEN <<>>
    ELSE <<hash_node(level[i], level[i + 1])>> \o build_pairs(level, i + 2)

\* build_level that pairs an orphan with itself instead of promoting it
build_level_pairs_orphan(level) ==
    IF Len(level) = 0 THEN <<hash_empty>>
    ELSE IF Len(level) = 1 THEN level
    ELSE build_pairs(level, 1)
         \o (IF Len(level) % 2 = 1
             THEN <<hash_node(level[Len(level)], level[Len(level)])>> ELSE <<>>)

build_level(level) ==
    IF Len(level) = 0 THEN <<hash_empty>>
    ELSE IF Len(level) = 1 THEN level
    ELSE build_pairs(level, 1)
         \o (IF Len(level) % 2 = 1 THEN <<level[Len(level)]>> ELSE <<>>)

RECURSIVE build_more(_)
\* the `while True` loop of build_levels
build_more(levels) ==
    LET next == build_level(levels[Len(levels)])
    IN  IF Len(next) = 1 THEN Append(levels, next)
        ELSE build_more(Append(levels, next))

build_levels(leaves) ==
    LET level0 == [i \in 1..Len(leaves) |-> hash_leaf(leaves[i])]
    IN  IF Len(leaves) = 0 THEN <<<<hash_empty>>>>
        ELSE IF Len(leaves) = 1 THEN <<level0>>
        ELSE build_more(<<level0>>)

\* Tree(leaves).root_hash
root_hash(leaves) ==
    LET levels == build_levels(leaves) IN levels[Len(levels)][1]

\* Tree(leaves): the object with its leaves and levels; root_hash is
\* levels[-1][0], height the number of levels and width the number of leaves
Tree(leaves) ==
    LET levels == build_levels(leaves)
    IN  [leaves |-> leaves, levels |-> levels, root_hash |-> levels[Len(levels)][1],
         height |-> Len(levels), width |-> Len(leaves)]

RECURSIVE pow2(_)
pow2(n) == IF n = 0 THEN 1 ELSE 2 * pow2(n - 1)

\* x >> n
shift_right(x, n) == x \div pow2(n)

is_right_child(node_index) == node_index % 2 = 1

sibling(node_index) ==
    IF is_right_child(node_index) THEN node_index - 1 ELSE node_index + 1

parent(node_index) == node_index \div 2

\* path_segment that records the node itself where it should record the sibling
path_segment_own_node(tree, node_index, last_node_index, level) ==
    LET sib == sibling(node_index)
    IN  [segment |-> IF sib <= last_node_index
                     THEN <<tree.levels[level + 1][node_index + 1]>> ELSE <<>>,
         node_index |-> parent(node_index),
         last_node_index |-> parent(last_node_index),
         level |-> level + 1]

\* path_segment: segment is the list of the one digest found, empty for None;
\* node indexes and levels are 0-based as in the code
path_segment(tree, node_index, last_node_index, level) ==
    LET sib == sibling(node_index)
    IN  [segment |-> IF sib <= last_node_index
                     THEN <<tree.levels[level + 1][sib + 1]>> ELSE <<>>,
         node_index |-> parent(node_index),
         last_node_index |-> parent(last_node_index),
         level |-> level + 1]

RECURSIVE path_walk(_, _, _, _)
\* the `while last_node_index > 0` loop of path
path_walk(tree, node_index, last_node_index, level) ==
    IF last_node_index > 0
    THEN LET step == path_segment(tree, node_index, last_node_index, level)
         IN  step.segment
                 \o path_walk(tree, step.node_index, step.last_node_index, step.level)
    ELSE <<>>

\* path(tree, node_index, level)
path(tree, node_index, level) ==
    LET snapshot_width == tree.width
        last_node_index == shift_right(snapshot_width - 1, level)
        is_last_level == level >= Len(tree.levels)
        node_overflow == node_index > last_node_index
    IN  IF snapshot_width = 0 THEN <<>>
        ELSE IF is_last_level \/ node_overflow THEN <<>>
        ELSE path_walk(tree, node_index, last_node_index, level)

-----------------------------------------------------------------------------
(* registers/log.py: Log                                                   *)

EmptyDict == [z \in {} |-> z]

\* dict[key] = value
dict_put(d, key, value) ==
    [z \in DOMAIN d \cup {key} |-> IF z = key THEN value ELSE d[z]]

\* {**a, **b}
dict_merge(a, b) ==
    [z \in DOMAIN a \cup DOMAIN b |-> IF z \in DOMAIN b THEN b[z] ELSE a[z]]

\* Log.byte_entries: the leaves are read from the Entry objects as they are now
byte_entries(entries, h) ==
    [i \in 1..Len(entries) |-> entry_bytes(h[entries[i]])]

\* Log.__init__ (entries and blobs default to [] and {})
Log(entries, blobs, h) ==
    [entries |-> entries, blobs |-> blobs, size |-> Len(entries),
     digest |-> root_hash(byte_entries(entries, h))]

\* Log.digest
log_digest(log) == Hash("sha-256", log.digest)

\* Log.is_empty
log_is_empty(log) == log.size = 0

\* Record(entry, blob)
Record(oid, blob) == [entry |-> oid, blob |-> blob]

\* snapshot that keeps the first entry of a key instead of overwriting it
snapshot_first(log, h, size) ==
    LET es == SubSeq(log.entries, 1, size)
        keys == {h[es[i]].key : i \in 1..Len(es)}
        first(k) == CHOOSE i \in 1..Len(es) :
                      /\ h[es[i]].key = k
                      /\ \A j \in 1..(i - 1) : h[es[j]].key # k
    IN  [k \in keys |-> Record(es[first(k)], log.blobs[h[es[first(k)]].blob_hash])]

\* Log.snapshot(size): the last entry of every key among entries[:size], with its blob
snapshot(log, h, size) ==
    LET es == SubSeq(log.entries, 1, size)
        keys == {h[es[i]].key : i \in 1..Len(es)}
        last(k) == CHOOSE i \in 1..Len(es) :
                     /\ h[es[i]].key = k
                     /\ \A j \in (i + 1)..Len(es) : h[es[j]].key # k
    IN  [k \in keys |-> Record(es[last(k)], log.blobs[h[es[last(k)]].blob_hash])]

\* Log.trail(key)
trail(log, h, key) ==
    SelectSeq(log.entries, LAMBDA oid : h[oid].key = key)

\* Python's None where a Record is expected
NoRecord == [none |-> TRUE]

\* Log.find(key): snapshot().get(key), None when the key has no record
find(log, h, key) ==
    LET snap == snapshot(log, h, log.size)
    IN  IF key \in DOMAIN snap THEN snap[key] ELSE NoRecord

\* Log.stats
stats(log) ==
    [total_entries |-> log.size, total_blobs |-> Cardinality(DOMAIN log.blobs)]

\* Log.insert(entry): the pair of the log and the heap after the call
insert_entry(log, h, oid) ==
    LET size == log.size + 1
        h1 == set_position(h, oid, size)
        entries == Append(log.entries, oid)
    IN  [log |-> [log EXCEPT !.size = size, !.entries = entries,
                             !.digest = root_hash(byte_entries(entries, h1))],
         heap |-> h1]

\* Log.insert(blob)
insert_blob(log, blob) ==
    [log EXCEPT !.blobs = dict_put(log.blobs, blob_digest(blob), blob)]

-----------------------------------------------------------------------------
(* registers/rsf/core.py: Command; registers/exceptions.py                 *)

NoBlob == [none |-> TRUE]
NoHash == Hash("none", <<>>)

add_item(blob) ==
    [action |-> "add-item", blob |-> blob, entry |-> None, hash |-> NoHash]

append_entry(oid) ==
    [action |-> "append-entry", blob |-> NoBlob, entry |-> oid, hash |-> NoHash]

assert_root_hash(root) ==
    [action |-> "assert-root-hash", blob |-> NoBlob, entry |-> None, hash |-> root]

NoException == [type |-> "None"]

OrphanEntry(oid) == [type |-> "OrphanEntry", entry |-> oid]

InconsistentLog(expected, actual, size) ==
    [type |-> "InconsistentLog", expected |-> expected, actual |-> actual,
     size |-> size]

DuplicatedEntry(key, blob) == [type |-> "DuplicatedEntry", key |-> key, blob |-> blob]

-----------------------------------------------------------------------------
(* registers/log.py: collect                                               *)

\* _collect_entry: the DuplicatedEntry error, or NoException when the entry
\* is to be appended
collect_entry(entry, snap) ==
    IF /\ entry.key \in DOMAIN snap
       /\ blob_digest(snap[entry.key].blob) = entry.blob_hash
    THEN DuplicatedEntry(entry.key, snap[entry.key].blob)
    ELSE NoException

\* what an observer of collect sees between two commands
view(st) ==
    [data |-> st.data, metadata |-> st.metadata, blobs |-> st.blobs,
     errors |-> st.errors, heap |-> st.heap]

\* collect_append with the test of the relaxed flag inverted
collect_append_flipped(st, oid, target, relaxed) ==
    LET entry == st.heap[oid]
        blob == st.blobs[entry.blob_hash]
        log1 == insert_blob(st[target], blob)
        err == collect_entry(entry, snapshot(log1, st.heap, log1.size))
        ins == insert_entry(log1, st.heap, oid)
    IN  IF err # NoException /\ relaxed
        THEN [st EXCEPT ![target] = log1, !.errors = Append(st.errors, err)]
        ELSE [st EXCEPT ![target] = ins.log, !.heap = ins.heap]

\* collect_append that leaves the blob out of the target log
collect_append_noblob(st, oid, target, relaxed) ==
    LET entry == st.heap[oid]
        log1 == st[target]
        err == collect_entry(entry, snapshot(log1, st.heap, log1.size))
        ins == insert_entry(log1, st.heap, oid)
    IN  IF err # NoException /\ ~relaxed
        THEN [st EXCEPT ![target] = log1, !.errors = Append(st.errors, err)]
        ELSE [st EXCEPT ![target] = ins.log, !.heap = ins.heap]

\* collect_append that never looks at the relaxed flag
collect_append_strict(st, oid, target, relaxed) ==
    LET entry == st.heap[oid]
        blob == st.blobs[entry.blob_hash]
        log1 == insert_blob(st[target], blob)
        err == collect_entry(entry, snapshot(log1, st.heap, log1.size))
        ins == insert_entry(log1, st.heap, oid)
    IN  IF err # NoException
        THEN [st EXCEPT ![target] = log1, !.errors = Append(st.errors, err)]
        ELSE [st EXCEPT ![target] = ins.log, !.heap = ins.heap]

\* the branch of collect's loop body for an append-entry, on the target log
collect_append(st, oid, target, relaxed) ==
    LET entry == st.heap[oid]
        blob == st.blobs[entry.blob_hash]
        log1 == insert_blob(st[target], blob)
        err == collect_entry(entry, snapshot(log1, st.heap, log1.size))
        ins == insert_entry(log1, st.heap, oid)
    IN  IF err # NoException /\ ~relaxed
        THEN [st EXCEPT ![target] = log1, !.errors = Append(st.errors, err)]
        ELSE [st EXCEPT ![target] = ins.log, !.heap = ins.heap]

\* collect_command that passes over an orphan entry instead of raising
collect_command_skips(st, command, relaxed) ==
    IF command.action = "assert-root-hash"
    THEN IF command.hash # log_digest(st.data)
         THEN [st EXCEPT !.raised =
                   InconsistentLog(command.hash, log_digest(st.data), st.data.size)]
         ELSE st
    ELSE IF command.action = "add-item"
    THEN [st EXCEPT !.blobs = dict_put(st.blobs, blob_digest(command.blob), command.blob)]
    ELSE IF st.heap[command.entry].blob_hash \notin DOMAIN st.blobs
    THEN st
    ELSE IF st.heap[command.entry].scope = "system"
    THEN collect_append(st, command.entry, "metadata", relaxed)
    ELSE collect_append(st, command.entry, "data", relaxed)

\* collect_command that appends the entries of every scope to the data log
collect_command_ignores_scope(st, command, relaxed) ==
    IF command.action = "assert-root-hash"
    THEN IF command.hash # log_digest(st.data)
         THEN [st EXCEPT !.raised =
                   InconsistentLog(command.hash, log_digest(st.data), st.data.size)]
         ELSE st
    ELSE IF command.action = "add-item"
    THEN [st EXCEPT !.blobs = dict_put(st.blobs, blob_digest(command.blob), command.blob)]
    ELSE IF st.heap[command.entry].blob_hash \notin DOMAIN st.blobs
    THEN [st EXCEPT !.raised = OrphanEntry(command.entry)]
    ELSE collect_append(st, command.entry, "data", relaxed)

\* collect_command whose add-item also inserts the blob in the data log
collect_command_item_to_data(st, command, relaxed) ==
    IF command.action = "assert-root-hash"
    THEN IF command.hash # log_digest(st.data)
         THEN [st EXCEPT !.raised =
                   InconsistentLog(command.hash, log_digest(st.data), st.data.size)]
         ELSE st
    ELSE IF command.action = "add-item"
    THEN [st EXCEPT !.blobs = dict_put(st.blobs, blob_digest(command.blob), command.blob),
                    !.data = insert_blob(st.data, command.blob)]
    ELSE IF st.heap[command.entry].blob_hash \notin DOMAIN st.blobs
    THEN [st EXCEPT !.raised = OrphanEntry(command.entry)]
    ELSE IF st.heap[command.entry].scope = "system"
    THEN collect_append(st, command.entry, "metadata", relaxed)
    ELSE collect_append(st, command.entry, "data", relaxed)

\* collect_command that checks an assertion against the metadata log
collect_command_metaroot(st, command, relaxed) ==
    IF command.action = "assert-root-hash"
    THEN IF command.hash # log_digest(st.metadata)
         THEN [st EXCEPT !.raised =
                   InconsistentLog(command.hash, log_digest(st.metadata),
                                   st.metadata.size)]
         ELSE st
    ELSE IF command.action = "add-item"
    THEN [st EXCEPT !.blobs = dict_put(st.blobs, blob_digest(command.blob), command.blob)]
    ELSE IF st.heap[command.entry].blob_hash \notin DOMAIN st.blobs
    THEN [st EXCEPT !.raised = OrphanEntry(command.entry)]
    ELSE IF st.heap[command.entry].scope = "system"
    THEN collect_append(st, command.entry, "metadata", relaxed)
    ELSE collect_append(st, command.entry, "data", relaxed)

\* one iteration of collect's loop
collect_command(st, command, relaxed) ==
    IF command.action = "assert-root-hash"
    THEN IF command.hash # log_digest(st.data)
         THEN [st EXCEPT !.raised =
                   InconsistentLog(command.hash, log_digest(st.data), st.data.size)]
         ELSE st
    ELSE IF command.action = "add-item"
    THEN [st EXCEPT !.blobs = dict_put(st.blobs, blob_digest(command.blob), command.blob)]
    ELSE IF st.heap[command.entry].blob_hash \notin DOMAIN st.blobs
    THEN [st EXCEPT !.raised = OrphanEntry(command.entry)]
    ELSE IF st.heap[command.entry].scope = "system"
    THEN collect_append(st, command.entry, "metadata", relaxed)
    ELSE collect_append(st, command.entry, "data", relaxed)

RECURSIVE collect_loop(_, _, _, _)
\* the loop of collect from command i on; it ends at the first exception.
\* steps records, for every command consumed, the view before and after it.
collect_loop(st, commands, i, relaxed) ==
    IF i > Len(commands) \/ st.raised # NoException THEN st
    ELSE LET st1 == collect_command(st, commands[i], relaxed)
             step == [command |-> commands[i], pre |-> view(st), post |-> view(st1),
                      raised |-> st1.raised]
         IN  collect_loop([st1 EXCEPT !.steps = Append(st.steps, step)],
                          commands, i + 1, relaxed)

\* collect(commands, log, metalog, relaxed): data, metadata and errors are what
\* it returns; raised is the exception that ended it; heap is the Entry objects
\* after it.
collect(commands, log, metalog, relaxed, h) ==
    collect_loop([commands |-> commands, data |-> log, metadata |-> metalog,
                  blobs |-> dict_merge(log.blobs, metalog.blobs),
                  errors |-> <<>>, raised |-> NoException, heap |-> h,
                  steps |-> <<>>],
                 commands, 1, relaxed)

-----------------------------------------------------------------------------
(* registers/rsf/parser.py: a parsed line is a new Command holding a new   *)
(* Blob, Entry or Hash object.                                             *)

\* the text of a line, before it is parsed
AddItemLine(blob) == [action |-> "add-item", blob |-> blob]
AppendEntryLine(scope, key, timestamp, blob_hash) ==
    [action |-> "append-entry", scope |-> scope, key |-> key,
     timestamp |-> timestamp, blob_hash |-> blob_hash]
AssertRootHashLine(root) == [action |-> "assert-root-hash", hash |-> root]

RECURSIVE parse(_, _)
\* parse(lines): the commands, and the heap with the Entry objects parse_entry made
parse(lines, h) ==
    IF Len(lines) = 0 THEN [commands |-> <<>>, heap |-> h]
    ELSE LET line == Head(lines)
             h1 == IF line.action = "append-entry"
                   THEN Append(h, Entry(line.key, line.scope, line.timestamp,
                                        line.blob_hash))
                   ELSE h
             command == IF line.action = "add-item" THEN add_item(line.blob)
                        ELSE IF line.action = "append-entry" THEN append_entry(Len(h1))
                        ELSE assert_root_hash(line.hash)
             rest == parse(Tail(lines), h1)
         IN  [commands |-> <<command>> \o rest.commands, heap |-> rest.heap]

-----------------------------------------------------------------------------
(* registers/rsf on text. A str is a sequence of chunks: the separators    *)
(* below are chunks of their own, every other chunk is a run of characters *)
(* that holds none of them.                                                *)

TAB == "\t"
NEWLINE == "\n"
SPACE == " "
COLON == ":"
COMMA == ","
QUOTE == "\""
LBRACE == "{"
RBRACE == "}"
ESC_TAB == "\\t"        \* the two characters backslash, t
ESC_QUOTE == "\\\""     \* the two characters backslash, quote

\* what str.strip() removes and what the JSON decoder skips
Whitespace == {SPACE, TAB, NEWLINE}

RECURSIVE lstrip(_)
lstrip(s) == IF Len(s) > 0 /\ Head(s) \in Whitespace THEN lstrip(Tail(s)) ELSE s

RECURSIVE rstrip(_)
rstrip(s) ==
    IF Len(s) > 0 /\ s[Len(s)] \in Whitespace THEN rstrip(SubSeq(s, 1, Len(s) - 1)) ELSE s

\* str.strip()
strip(s) == lstrip(rstrip(s))

RECURSIVE split(_, _)
\* str.split(sep): the fields between the separators, one more than there are
\* separators
split(s, sep) ==
    LET at == {i \in 1..Len(s) : s[i] = sep}
        first == CHOOSE i \in at : \A j \in at : i <= j
    IN  IF at = {} THEN <<s>>
        ELSE <<SubSeq(s, 1, first - 1)>> \o split(SubSeq(s, first + 1, Len(s)), sep)

\* str.split(sep, 1)
split_once(s, sep) ==
    LET at == {i \in 1..Len(s) : s[i] = sep}
        first == CHOOSE i \in at : \A j \in at : i <= j
    IN  IF at = {} THEN <<s>>
        ELSE <<SubSeq(s, 1, first - 1), SubSeq(s, first + 1, Len(s))>>

RECURSIVE join(_, _)
\* sep.join(parts)
join(sep, parts) ==
    IF Len(parts) = 0 THEN <<>>
    ELSE IF Len(parts) = 1 THEN parts[1]
    ELSE parts[1] \o <<sep>> \o join(sep, Tail(parts))

\* JSON values: a string of chunks or an object from strings to values
JsonString(s) == [t |-> "str", v |-> s]
JsonObject(f) == [t |-> "obj", v |-> f]

\* the keys an object given to json.dumps can have, in sort_keys order
SortedJsonKeys == << <<"pk">>, <<"val">> >>

\* the escapes of the JSON encoder and decoder for the chunks of the model
json_escape(s) ==
    [i \in 1..Len(s) |-> IF s[i] = TAB THEN ESC_TAB
                         ELSE IF s[i] = QUOTE THEN ESC_QUOTE ELSE s[i]]

json_unescape(s) ==
    [i \in 1..Len(s) |-> IF s[i] = ESC_TAB THEN TAB
                         ELSE IF s[i] = ESC_QUOTE THEN QUOTE ELSE s[i]]

RECURSIVE json_dumps(_)
\* json.dumps(data, sort_keys=True, separators=(',', ':'), ensure_ascii=False)
json_dumps(value) ==
    IF value.t = "str" THEN <<QUOTE>> \o json_escape(value.v) \o <<QUOTE>>
    ELSE LET keys == SelectSeq(SortedJsonKeys, LAMBDA k : k \in DOMAIN value.v)
             pairs == [i \in 1..Len(keys) |->
                          <<QUOTE>> \o json_escape(keys[i]) \o <<QUOTE, COLON>>
                              \o json_dumps(value.v[keys[i]])]
         IN  <<LBRACE>> \o join(COMMA, pairs) \o <<RBRACE>>

RECURSIVE skip_whitespace(_, _)
skip_whitespace(s, i) ==
    IF i <= Len(s) /\ s[i] \in Whitespace THEN skip_whitespace(s, i + 1) ELSE i

\* what a decoding step gives: the value and the index after it, or a failure
JsonFail == [ok |-> FALSE, value |-> JsonString(<<>>), next |-> 0]
JsonOk(value, next) == [ok |-> TRUE, value |-> value, next |-> next]

\* the string that opens at the quote s[i]: it runs to the next quote and holds
\* no raw control character
json_scan_string(s, i) ==
    LET closing == {j \in (i + 1)..Len(s) : s[j] = QUOTE}
        close == CHOOSE j \in closing : \A k \in closing : j <= k
    IN  IF closing = {} THEN JsonFail
        ELSE IF \E j \in (i + 1)..(close - 1) : s[j] \in {TAB, NEWLINE} THEN JsonFail
        ELSE JsonOk(JsonString(json_unescape(SubSeq(s, i + 1, close - 1))), close + 1)

RECURSIVE json_scan_value(_, _)
RECURSIVE json_scan_pairs(_, _, _)

\* the value that starts at s[i]
json_scan_value(s, i) ==
    IF i > Len(s) THEN JsonFail
    ELSE IF s[i] = QUOTE THEN json_scan_string(s, i)
    ELSE IF s[i] = LBRACE
    THEN LET j == skip_whitespace(s, i + 1)
         IN  IF j <= Len(s) /\ s[j] = RBRACE
             THEN JsonOk(JsonObject([z \in {} |-> z]), j + 1)
             ELSE json_scan_pairs(s, j, [z \in {} |-> z])
    ELSE JsonFail

\* the pairs of an object from the key that starts at s[i]; a later pair
\* replaces an earlier one of the same key
json_scan_pairs(s, i, pairs) ==
    IF i > Len(s) \/ s[i] # QUOTE THEN JsonFail
    ELSE LET key == json_scan_string(s, i)
             colon == skip_whitespace(s, key.next)
             value == json_scan_value(s, skip_whitespace(s, colon + 1))
             after == skip_whitespace(s, value.next)
             more == [k \in DOMAIN pairs \cup {key.value.v} |->
                          IF k = key.value.v THEN value.value ELSE pairs[k]]
         IN  IF ~key.ok THEN JsonFail
             ELSE IF colon > Len(s) \/ s[colon] # COLON THEN JsonFail
             ELSE IF ~value.ok THEN JsonFail
             ELSE IF after > Len(s) THEN JsonFail
             ELSE IF s[after] = RBRACE THEN JsonOk(JsonObject(more), after + 1)
             ELSE IF s[after] = COMMA
             THEN json_scan_pairs(s, skip_whitespace(s, after + 1), more)
             ELSE JsonFail

\* json.loads(s): a value, with whitespace around it and nothing else
json_loads(s) ==
    LET value == json_scan_value(s, skip_whitespace(s, 1))
    IN  IF ~value.ok THEN JsonFail
        ELSE IF skip_whitespace(s, value.next) <= Len(s) THEN JsonFail
        ELSE value

\* Blob(data) of the text layer, and its to_json
TextBlob(data) == [data |-> data]
to_json(blob) == json_dumps(blob.data)

\* Hash.__repr__
hash_str(h) == h.algorithm \o <<COLON>> \o h.digest

\* Command(action, value)
Command(action, value) == [action |-> action, value |-> value]

\* a parse function either returns a value or raises
Returned(value) == [raised |-> NoException, value |-> value]
Raised(type) == [raised |-> [type |-> type], value |-> <<>>]

\* parse_blob
parse_blob(original) ==
    LET loaded == json_loads(strip(original))
    IN  IF loaded.ok THEN Returned(TextBlob(loaded.value)) ELSE Raised("ValueError")

\* parse_hash
parse_hash(original) ==
    LET fields == split(strip(original), COLON)
    IN  IF Len(fields) # 2 THEN Raised("ValueError")
        ELSE Returned(Hash(fields[1], fields[2]))

\* parse_entry that does not look at the scope token
parse_entry_any_scope(original) ==
    LET fields == split(strip(original), TAB)
    IN  IF Len(fields) # 4 THEN Raised("ValueError")
        ELSE IF parse_hash(fields[4]).raised # NoException THEN Raised("ValueError")
        ELSE Returned(Entry(fields[2], IF fields[1] = <<"system">> THEN "system" ELSE "user",
                            fields[3], parse_hash(fields[4]).value))

\* parse_entry
parse_entry(original) ==
    LET fields == split(strip(original), TAB)
    IN  IF Len(fields) # 4 THEN Raised("ValueError")
        ELSE IF fields[1] \notin {<<"user">>, <<"system">>} THEN Raised("ValueError")
        ELSE IF parse_hash(fields[4]).raised # NoException THEN Raised("ValueError")
        ELSE Returned(Entry(fields[2], fields[1][1], fields[3], parse_hash(fields[4]).value))

\* parse_command
parse_command(original) ==
    LET parts == split_once(original, TAB)
        action == parts[1]
        rest == parts[2]
    IN  IF Len(parts) # 2 THEN Raised("UnknownCommand")
        ELSE IF action = <<"add-item">>
        THEN IF parse_blob(rest).raised # NoException
             THEN Raised("AddItemCommandException")
             ELSE Returned(Command("add-item", parse_blob(rest).value))
        ELSE IF action = <<"append-entry">>
        THEN IF parse_entry(rest).raised # NoException
             THEN Raised("AppendEntryCommandException")
             ELSE Returned(Command("append-entry", parse_entry(rest).value))
        ELSE IF action = <<"assert-root-hash">>
        THEN IF parse_hash(rest).raised # NoException
             THEN Raised("AssertRootHashCommandException")
             ELSE Returned(Command("assert-root-hash", parse_hash(rest).value))
        ELSE Raised("UnknownCommand")

RECURSIVE parse_lines(_)
\* parse(patch_lines): the list comprehension raises at the first line that
\* does, and then there is no list
parse_lines(patch_lines) ==
    IF Len(patch_lines) = 0 THEN Returned(<<>>)
    ELSE LET first == parse_command(Head(patch_lines))
             rest == parse_lines(Tail(patch_lines))
         IN  IF first.raised # NoException THEN first
             ELSE IF rest.raised # NoException THEN rest
             ELSE Returned(<<first.value>> \o rest.value)

\* Command.__repr__ on text: the tokens joined by TAB
command_str(c) ==
    IF "data" \in DOMAIN c.value THEN join(TAB, << <<c.action>>, to_json(c.value) >>)
    ELSE IF "key" \in DOMAIN c.value
    THEN join(TAB, << <<c.action>>, <<c.value.scope>>, c.value.key, c.value.timestamp,
                      hash_str(c.value.blob_hash) >>)
    ELSE join(TAB, << <<c.action>>, hash_str(c.value) >>)

\* rsf.dump(commands)
dump(commands) ==
    join(NEWLINE, [i \in 1..Len(commands) |-> command_str(commands[i])]) \o <<NEWLINE>>

\* str.splitlines()
splitlines(s) ==
    IF Len(s) = 0 THEN <<>>
    ELSE IF s[Len(s)] = NEWLINE THEN split(SubSeq(s, 1, Len(s) - 1), NEWLINE)
    ELSE split(s, NEWLINE)

\* load(original)
load(original) == parse_lines(splitlines(original))

-----------------------------------------------------------------------------
(* registers/patch.py                                                      *)

RECURSIVE patch_collect_entry_first(_, _, _, _)
\* collect that emits the append-entry of a blob before its add-item
patch_collect_entry_first(primary_key, blobs, timestamp, h) ==
    IF Len(blobs) = 0 THEN [commands |-> <<>>, heap |-> h]
    ELSE LET blob == Head(blobs)
             key == blob_get(blob, primary_key)
             h1 == Append(h, Entry(key, "user", timestamp, blob_digest(blob)))
             rest == patch_collect_entry_first(primary_key, Tail(blobs), timestamp, h1)
         IN  [commands |-> <<append_entry(Len(h1)), add_item(blob)>> \o rest.commands,
              heap |-> rest.heap]

RECURSIVE patch_collect(_, _, _, _)
\* collect(primary_key, blobs, timestamp): the commands, and the heap with the
\* Entry objects it made
patch_collect(primary_key, blobs, timestamp, h) ==
    IF Len(blobs) = 0 THEN [commands |-> <<>>, heap |-> h]
    ELSE LET blob == Head(blobs)
             key == blob_get(blob, primary_key)
             h1 == Append(h, Entry(key, "user", timestamp, blob_digest(blob)))
             rest == patch_collect(primary_key, Tail(blobs), timestamp, h1)
         IN  [commands |-> <<add_item(blob), append_entry(Len(h1))>> \o rest.commands,
              heap |-> rest.heap]

\* Patch._timestamp of a patch made from commands: the timestamp of the first
\* append-entry (the list of them indexed at 0)
first_timestamp(commands, h) ==
    h[SelectSeq(commands, LAMBDA c : c.action = "append-entry")[1].entry].timestamp

\* seal that puts both assertions at the end of the list
seal_appends_both(commands, start, end) ==
    Append(Append(commands, assert_root_hash(start)), assert_root_hash(end))

\* Patch.seal on the command list of the patch
seal(commands, start, end) ==
    Append(<<assert_root_hash(start)>> \o commands, assert_root_hash(end))

\* Patch.is_sealed
is_sealed(commands) ==
    /\ commands[1].action = "assert-root-hash"
    /\ commands[Len(commands)].action = "assert-root-hash"

-----------------------------------------------------------------------------
(* registers/schema.py                                                     *)

\* Cardinality.One, Cardinality.Many
One == "1"
Many == "n"

\* DATATYPES
Datatypes ==
    {"curie", "datetime", "name", "hash", "integer", "period", "string", "text",
     "timestamp", "url"}

Attribute(uid, datatype, cardinality) ==
    [uid |-> uid, datatype |-> datatype, cardinality |-> cardinality]

Schema(primary_key_id, attrs) == [primary_key |-> primary_key_id, attrs |-> attrs]

\* attribute(blob): the Attribute a metadata blob describes; blob.get raises
\* KeyError for a blob without one of the four keys, and the blobs of the
\* model carry them all
attribute(blob) ==
    Attribute(blob_get(blob, "field"), blob_get(blob, "datatype"),
              blob_get(blob, "cardinality"))

NoAttribute == [none |-> TRUE]

\* Schema.get(uid): the first attribute of that uid, or None
schema_get(schema, uid) ==
    LET found == {i \in 1..Len(schema.attrs) : schema.attrs[i].uid = uid}
    IN  IF found = {} THEN NoAttribute
        ELSE schema.attrs[CHOOSE i \in found : \A j \in found : i <= j]

\* Schema.is_ready
schema_is_ready(primary_key, attrs) ==
    Len(attrs) > 1 /\ schema_get(Schema(primary_key, attrs), primary_key) # NoAttribute

-----------------------------------------------------------------------------
(* registers/register.py                                                   *)

\* Register._collect_update_date: the new _update_date
collect_update_date(log, metalog, h, update_date) ==
    IF ~log_is_empty(log) THEN h[log.entries[Len(log.entries)]].timestamp
    ELSE IF ~log_is_empty(metalog)
    THEN h[metalog.entries[Len(metalog.entries)]].timestamp
    ELSE update_date

NoDate == "None"
NoUid == "None"

\* Register._collect_basic_metadata: the new _uid
collect_uid(metalog, h, uid) ==
    LET snap == snapshot(metalog, h, metalog.size)
    IN  IF "name" \in DOMAIN snap THEN blob_get(snap["name"].blob, "name") ELSE uid

\* the attribute identifiers of the model and the metadata key of each
Attrs == {"pk", "val"}
FieldKey(f) == IF f = "pk" THEN "field:pk" ELSE "field:val"

\* key.startswith("field:")
startswith_field(key) == \E f \in Attrs : key = FieldKey(f)

\* Register.schema: the attributes read from the metadata records whose key
\* starts with `field:`, one per key, in the order the snapshot dictionary
\* holds its keys (that of the first entry of each key)
schema_attrs(metalog, h) ==
    LET snap == snapshot(metalog, h, metalog.size)
        es == metalog.entries
        firsts == SelectSeq([i \in 1..Len(es) |-> i],
                            LAMBDA i : /\ startswith_field(h[es[i]].key)
                                       /\ \A j \in 1..(i - 1) : h[es[j]].key # h[es[i]].key)
    IN  [n \in 1..Len(firsts) |-> attribute(snap[h[es[firsts[n]]].key].blob)]

\* Register.is_ready
is_ready(reg, h) ==
    reg.uid # NoUid /\ schema_is_ready(reg.uid, schema_attrs(reg.metalog, h))

\* Register.__init__ up to the call of _load_commands; cl is the new [] list
NewRegister(cl, h) ==
    [log |-> Log(<<>>, EmptyDict, h), metalog |-> Log(<<>>, EmptyDict, h),
     commands |-> cl, uid |-> NoUid, update_date |-> NoDate]

\* Register._load_commands(commands) where the collect result is pair and cl
\* is the list object passed in
load_commands(reg, cl, pair) ==
    [reg EXCEPT !.commands = cl, !.log = pair.data, !.metalog = pair.metadata,
                !.uid = collect_uid(pair.metadata, pair.heap, reg.uid),
                !.update_date = collect_update_date(pair.data, pair.metadata,
                                                    pair.heap, reg.update_date)]

\* Register.apply(patch) when collect returns pair without raising
apply_returns(reg, pair) ==
    [reg EXCEPT !.log = pair.data, !.metalog = pair.metadata,
                !.update_date = collect_update_date(pair.data, pair.metadata,
                                                    pair.heap, reg.update_date)]

\* Register.apply(patch) when collect raises: the assignments after the call
\* are skipped, the Log objects collect was given are the register's own
apply_raises(reg, pair) ==
    [reg EXCEPT !.log = pair.data, !.metalog = pair.metadata]

\* Register.records, Register.record(key) and Register.trail(key)
records(reg, h) == snapshot(reg.log, h, reg.log.size)
record(reg, h, key) == find(reg.log, h, key)
register_trail(reg, h, key) == trail(reg.log, h, key)

\* what Register.apply returns to its caller: it has no return statement, so
\* None, which is modelled as the empty list of errors
apply_result(pair) == <<>>

\* registers/commands/patch.py, create and apply: `if errors: utils.error(errors)`
\* exits before _apply appends the patch to the RSF file
patch_command_stops(errors) == Len(errors) > 0

-----------------------------------------------------------------------------
(* registers/validator.py. A value of a blob-like dictionary is a Python    *)
(* object tagged with its type: None, a str (a sequence of chunks, "/" a    *)
(* chunk of its own), a list of values, or a scalar that is no str (an int, *)
(* a dict). A dictionary is the list of its items in iteration order.       *)

SLASH == "/"

PyNone == [t |-> "NoneType"]
PyStr(s) == [t |-> "str", s |-> s]
PyList(tokens) == [t |-> "list", tokens |-> tokens]
PyInt == [t |-> "int"]
PyDict == [t |-> "dict"]

\* data.get(key): the value of the key, or None
dict_get(data, key) ==
    LET found == {i \in 1..Len(data) : data[i][1] = key}
    IN  IF found = {} THEN PyNone ELSE data[CHOOSE i \in found : TRUE][2]

\* the texts of the model that each regular expression matches; no
\* expression but CURIE_RE admits a "/", and the curies of the model have none
CURIE_RE == {<<"a:b">>}
DATETIME_RE == {<<"2019">>}
NAME_RE == {<<"foo">>, <<"P1Y">>}
HASH_RE == {<<"sha-256:aa">>}
INTEGER_RE == {<<"2019">>}
PERIOD_RE == {<<"P1Y">>, <<"P">>, <<"P1YT">>}
TIMESTAMP_RE == {<<"2019-01-01T00:00:00Z">>}

validate_curie(value) == value \in CURIE_RE
validate_datetime(value) == value \in DATETIME_RE
validate_name(value) == value \in NAME_RE
validate_hash(value) == value \in HASH_RE
validate_integer(value) == value \in INTEGER_RE
validate_timestamp(value) == value \in TIMESTAMP_RE

\* validate_url: urlparse(value) has a known scheme and a hostname with a dot
validate_url(value) == value = <<"https:", SLASH, SLASH, "example.org">>

\* value.endswith("T")
endswith_T(value) == value \in {<<"P1YT">>}

\* _is_valid_duration
is_valid_duration(value) ==
    value \in PERIOD_RE /\ value # <<"P">> /\ ~endswith_T(value)

\* _is_valid_period_part
is_valid_period_part(value) == value \in DATETIME_RE \/ is_valid_duration(value)

\* validate_period: `start, end = value.split("/")` raises ValueError unless
\* the split gives exactly two parts
validate_period(value) ==
    IF \E i \in 1..Len(value) : value[i] = SLASH
    THEN LET parts == split(value, SLASH)
         IN  IF Len(parts) # 2 THEN Raised("ValueError")
             ELSE Returned(is_valid_period_part(parts[1]) /\ is_valid_period_part(parts[2]))
    ELSE Returned(is_valid_duration(value))

\* validate_value_datatype
validate_value_datatype(value, datatype) ==
    IF datatype = "curie" /\ ~validate_curie(value) THEN Raised("InvalidCurieValue")
    ELSE IF datatype = "datetime" /\ ~validate_datetime(value)
    THEN Raised("InvalidDatetimeValue")
    ELSE IF datatype = "name" /\ ~validate_name(value) THEN Raised("InvalidNameValue")
    ELSE IF datatype = "hash" /\ ~validate_hash(value) THEN Raised("InvalidHashValue")
    ELSE IF datatype = "integer" /\ ~validate_integer(value)
    THEN Raised("InvalidIntegerValue")
    ELSE IF datatype = "period" /\ validate_period(value).raised # NoException
    THEN validate_period(value)
    ELSE IF datatype = "period" /\ ~validate_period(value).value
    THEN Raised("InvalidPeriodValue")
    ELSE IF datatype = "timestamp" /\ ~validate_timestamp(value)
    THEN Raised("InvalidTimestampValue")
    ELSE IF datatype = "url" /\ ~validate_url(value) THEN Raised("InvalidUrlValue")
    ELSE Returned(TRUE)

\* validate_value
validate_value(value, attr) ==
    IF value.t # "str" THEN Raised("RepresentationError")
    ELSE validate_value_datatype(value.s, attr.datatype)

\* validate, `for token in value: validate_value(token, attr)` from token i
RECURSIVE validate_tokens(_, _, _)
validate_tokens(tokens, attr, i) ==
    IF i > Len(tokens) THEN Returned(TRUE)
    ELSE IF validate_value(tokens[i], attr).raised # NoException
    THEN validate_value(tokens[i], attr)
    ELSE validate_tokens(tokens, attr, i + 1)

\* validate, the body of `for key, value in data.items()` for one item
validate_item(key, value, attr) ==
    IF attr = NoAttribute THEN Raised("UnknownAttribute")
    ELSE IF value.t = "NoneType" THEN Returned(TRUE)
    ELSE IF value.t = "list"
    THEN IF attr.cardinality # Many THEN Raised("CardinalityMismatch")
         ELSE validate_tokens(value.tokens, attr, 1)
    ELSE IF attr.cardinality # One THEN Raised("CardinalityMismatch")
         ELSE validate_value(value, attr)

\* validate, `for key, value in data.items()` from item i, then `return True`
RECURSIVE validate_items(_, _, _)
validate_items(data, schema, i) ==
    IF i > Len(data) THEN Returned(TRUE)
    ELSE LET r == validate_item(data[i][1], data[i][2], schema_get(schema, data[i][1]))
         IN  IF r.raised # NoException THEN r ELSE validate_items(data, schema, i + 1)

\* validate(data, schema)
validate(data, schema) ==
    IF dict_get(data, schema.primary_key).t = "NoneType" THEN Raised("MissingPrimaryKey")
    ELSE validate_items(data, schema, 1)

-----------------------------------------------------------------------------
(* The inputs of the operations.                                           *)

EmptyTreeHash == Hash("sha-256", hash_empty)

\* one add-item/append-entry pair of an RSF file
InitRow(blob, scope) ==
    <<AddItemLine(blob),
      AppendEntryLine(scope, blob_get(blob, PrimaryKey), InitTimestamp, blob_digest(blob))>>

RECURSIVE InitRowSeqs(_)
InitRowSeqs(n) ==
    IF n = 0 THEN {<<>>}
    ELSE InitRowSeqs(n - 1)
         \cup {InitRow(b, s) \o rest : b \in Blobs, s \in Scopes,
                                       rest \in InitRowSeqs(n - 1)}

\* the RSF files a Register is built from: up to MaxInitRows pairs, with or
\* without the leading assertion of the empty tree that `init` writes
PlainStreams == InitRowSeqs(MaxInitRows)

\* an RSF file that adds one item no entry refers to
LoneItemStreams == {<<AddItemLine(b)>> : b \in Blobs}

InitStreams ==
    PlainStreams
    \cup {<<AssertRootHashLine(EmptyTreeHash)>> \o rows : rows \in PlainStreams}
    \cup LoneItemStreams

RECURSIVE SeqsUpTo(_, _)
\* the sequences of at most n elements of S
SeqsUpTo(S, n) ==
    IF n = 0 THEN {<<>>}
    ELSE SeqsUpTo(S, n - 1)
         \cup {<<x>> \o rest : x \in S, rest \in {q \in SeqsUpTo(S, n - 1) : Len(q) = n - 1}}

\* the lists of blobs a patch is made from (the empty list is refused)
BlobLists == SeqsUpTo(Blobs, MaxRows)

\* the lines of a patch file
PatchLines ==
    {AddItemLine(b) : b \in Blobs}
    \cup {AppendEntryLine(s, blob_get(b, PrimaryKey), PatchTimestamp, blob_digest(b)) :
            s \in Scopes, b \in Blobs}

PatchFiles == SeqsUpTo(PatchLines, MaxCmds)

NumAppends(commands) ==
    Len(SelectSeq(commands, LAMBDA c : c.action = "append-entry"))

-----------------------------------------------------------------------------
(* The operations.                                                         *)

\* commands: the commands collect was called with; errors: the errors collect
\* accumulated; returned: what the operation handed to its caller
Outcome(op, r, p, raised, pair) ==
    [op |-> op, register |-> r, patch |-> p, raised |-> raised,
     commands |-> pair.commands, errors |-> pair.errors,
     returned |-> apply_result(pair), steps |-> pair.steps]

NoPair == [commands |-> <<>>, errors |-> <<>>, steps |-> <<>>]

\* Register(commands) on the freshly parsed lines; a constructor that raises
\* leaves no Register behind
construct(lines, h, ls, regs) ==
    LET parsed == parse(lines, h)
        cl == Len(ls) + 1
        reg0 == NewRegister(cl, parsed.heap)
        pair == collect(parsed.commands, Log(<<>>, EmptyDict, parsed.heap),
                        Log(<<>>, EmptyDict, parsed.heap), FALSE, parsed.heap)
    IN  IF Len(parsed.commands) = 0
        THEN [ok |-> TRUE, heap |-> h, lists |-> Append(ls, <<>>),
              registers |-> Append(regs, reg0),
              outcome |-> Outcome("Register", Len(regs) + 1, None, NoException, NoPair)]
        ELSE [ok |-> pair.raised = NoException, heap |-> pair.heap,
              lists |-> Append(ls, parsed.commands),
              registers |-> Append(regs, load_commands(reg0, cl, pair)),
              outcome |-> Outcome("Register", Len(regs) + 1, None, NoException, pair)]

InitFrom(streams) ==
    \E lines \in streams :
        LET made == construct(lines, <<>>, <<>>, <<>>)
        IN  /\ made.ok
            /\ heap = made.heap
            /\ lists = made.lists
            /\ registers = made.registers
            /\ patches = <<>>
            /\ outcome = made.outcome
            /\ applies = 0

Init == InitFrom(InitStreams)

\* Patch(schema, blobs, timestamp)
PatchFromBlobs(blobs, timestamp) ==
    /\ Len(patches) < MaxPatches
    /\ IF Len(blobs) = 0
       THEN /\ outcome' = Outcome("Patch", None, None, [type |-> "ValueError"], NoPair)
            /\ UNCHANGED <<heap, lists, patches, registers, applies>>
       ELSE LET made == patch_collect(PrimaryKey, blobs, timestamp, heap)
            IN  /\ heap' = made.heap
                /\ lists' = Append(lists, made.commands)
                /\ patches' = Append(patches, [commands |-> Len(lists) + 1,
                                               timestamp |-> timestamp,
                                               blobs |-> blobs])
                /\ outcome' = Outcome("Patch", None, Len(patches) + 1, NoException, NoPair)
                /\ UNCHANGED <<registers, applies>>

\* Patch(schema, commands) on the freshly parsed lines of a patch file
PatchFromCommands(lines) ==
    /\ Len(patches) < MaxPatches
    /\ LET parsed == parse(lines, heap)
       IN  IF Len(lines) = 0
           THEN /\ outcome' = Outcome("Patch", None, None, [type |-> "ValueError"], NoPair)
                /\ UNCHANGED <<heap, lists, patches, registers, applies>>
           ELSE IF NumAppends(parsed.commands) = 0
           THEN /\ outcome' = Outcome("Patch", None, None, [type |-> "IndexError"], NoPair)
                /\ UNCHANGED <<heap, lists, patches, registers, applies>>
           ELSE /\ heap' = parsed.heap
                /\ lists' = Append(lists, parsed.commands)
                /\ patches' = Append(patches,
                                     [commands |-> Len(lists) + 1,
                                      timestamp |-> first_timestamp(parsed.commands,
                                                                    parsed.heap),
                                      blobs |-> <<>>])
                /\ outcome' = Outcome("Patch", None, Len(patches) + 1, NoException, NoPair)
                /\ UNCHANGED <<registers, applies>>

\* patch.seal(start, end), called once on a patch
Seal(p, start, end) ==
    /\ ~is_sealed(lists[patches[p].commands])
    /\ lists' = [lists EXCEPT ![patches[p].commands] = seal(@, start, end)]
    /\ outcome' = Outcome("seal", None, p, NoException, NoPair)
                     @@ [start |-> start, end |-> end]
    /\ UNCHANGED <<heap, patches, registers, applies>>

\* Apply that archives the patch commands before it calls collect, so that
\* they are archived also when collect raises
Apply_archives_first(r, p) ==
    LET reg == registers[r]
        commands == lists[patches[p].commands]
        pair == collect(commands, reg.log, reg.metalog, FALSE, heap)
    IN  /\ applies < MaxApplies
        /\ applies' = applies + 1
        /\ heap' = pair.heap
        /\ lists' = [lists EXCEPT ![reg.commands] = @ \o commands]
        /\ IF pair.raised = NoException
           THEN registers' = [registers EXCEPT ![r] = apply_returns(reg, pair)]
           ELSE registers' = [registers EXCEPT ![r] = apply_raises(reg, pair)]
        /\ outcome' = Outcome("apply", r, p, pair.raised, pair)
        /\ UNCHANGED patches

\* register.apply(patch)
Apply(r, p) ==
    LET reg == registers[r]
        commands == lists[patches[p].commands]
        pair == collect(commands, reg.log, reg.metalog, FALSE, heap)
    IN  /\ applies < MaxApplies
        /\ applies' = applies + 1
        /\ heap' = pair.heap
        /\ IF pair.raised = NoException
           THEN /\ registers' = [registers EXCEPT ![r] = apply_returns(reg, pair)]
                /\ lists' = [lists EXCEPT ![reg.commands] = @ \o commands]
           ELSE /\ registers' = [registers EXCEPT ![r] = apply_raises(reg, pair)]
                /\ UNCHANGED lists
        /\ outcome' = Outcome("apply", r, p, pair.raised, pair)
        /\ UNCHANGED patches

\* the hashes a patch is sealed with: the data-log root of a register as it
\* is now, the root it has once the patch is applied to a copy of it in
\* memory, or the root of the empty tree
SealHashes ==
    {log_digest(registers[r].log) : r \in DOMAIN registers}
    \cup {log_digest(collect(lists[patches[p].commands], registers[r].log,
                             registers[r].metalog, FALSE, heap).data) :
            r \in DOMAIN registers, p \in DOMAIN patches}
    \cup {EmptyTreeHash}

Next ==
    \/ \E blobs \in BlobLists : PatchFromBlobs(blobs, PatchTimestamp)
    \/ \E lines \in PatchFiles : PatchFromCommands(lines)
    \/ \E p \in DOMAIN patches : \E start \in SealHashes, end \in SealHashes : Seal(p, start, end)
    \/ \E r \in DOMAIN registers, p \in DOMAIN patches : Apply(r, p)

Spec == Init /\ [][Next]_vars

\* a further Register(commands), built from its own RSF file
Construct(lines) ==
    LET made == construct(lines, heap, lists, registers)
    IN  /\ Len(registers) < MaxRegisters
        /\ made.ok
        /\ heap' = made.heap
        /\ lists' = made.lists
        /\ registers' = made.registers
        /\ outcome' = made.outcome
        /\ UNCHANGED <<patches, applies>>

\* a further Register(commands), given the list object that the register r0
\* was built from: _load_commands keeps the list it is given
ConstructSame(r0) ==
    LET cl == registers[r0].commands
        pair == collect(lists[cl], Log(<<>>, EmptyDict, heap), Log(<<>>, EmptyDict, heap),
                        FALSE, heap)
    IN  /\ Len(registers) < MaxRegisters
        /\ Len(lists[cl]) > 0
        /\ pair.raised = NoException
        /\ heap' = pair.heap
        /\ registers' = Append(registers, load_commands(NewRegister(cl, heap), cl, pair))
        /\ outcome' = Outcome("Register", Len(registers) + 1, None, NoException, pair)
        /\ UNCHANGED <<lists, patches, applies>>

\* several registers in one process, patched with Patch objects made from blobs
NextShared ==
    \/ \E lines \in PlainStreams : Construct(lines)
    \/ \E r0 \in DOMAIN registers : ConstructSame(r0)
    \/ \E blobs \in BlobLists : PatchFromBlobs(blobs, PatchTimestamp)
    \/ \E r \in DOMAIN registers, p \in DOMAIN patches : Apply(r, p)

InitShared == InitFrom(PlainStreams)

SpecShared == InitShared /\ [][NextShared]_vars

\* the add-item/append-entry pair of the metadata record `name`
NameRow(n, timestamp) ==
    <<AddItemLine(NameBlob(n)),
      AppendEntryLine("system", "name", timestamp, blob_digest(NameBlob(n)))>>

\* the add-item/append-entry pair of the metadata record `field:<f>`
FieldRow(f, timestamp) ==
    <<AddItemLine(FieldBlob(f)),
      AppendEntryLine("system", FieldKey(f), timestamp, blob_digest(FieldBlob(f)))>>

MetaRows(timestamp) ==
    {NameRow(n, timestamp) : n \in Attrs} \cup {FieldRow(f, timestamp) : f \in Attrs}

RECURSIVE MetaRowSeqs(_)
MetaRowSeqs(n) ==
    IF n = 0 THEN {<<>>}
    ELSE MetaRowSeqs(n - 1)
         \cup {row \o rest : row \in MetaRows(InitTimestamp), rest \in MetaRowSeqs(n - 1)}

\* the RSF files of registers that carry metadata only: some are ready, some
\* have no name, some have too few attributes
MetaStreams == MetaRowSeqs(MaxMetaRows)

\* the add-item/append-entry pair that files the attribute g under the
\* metadata key of the attribute f
MisfiledRow(f, g, timestamp) ==
    <<AddItemLine(FieldBlob(g)),
      AppendEntryLine("system", FieldKey(f), timestamp, blob_digest(FieldBlob(g)))>>

\* the patch files that change the metadata
MetaPatchFiles ==
    MetaRows(PatchTimestamp)
    \cup UNION {{MisfiledRow(f, g, PatchTimestamp) : g \in Attrs \ {f}} : f \in Attrs}

\* a register with metadata, patched with metadata rows and with data rows
NextMeta ==
    \/ \E lines \in MetaPatchFiles : PatchFromCommands(lines)
    \/ \E blobs \in BlobLists : PatchFromBlobs(blobs, PatchTimestamp)
    \/ \E r \in DOMAIN registers, p \in DOMAIN patches : Apply(r, p)

InitMeta == InitFrom(MetaStreams)

SpecMeta == InitMeta /\ [][NextMeta]_vars

\* the RSF lines given to a direct call of collect
CollectStreams == InitRowSeqs(MaxRows)

\* collect(parse(lines), relaxed=relaxed) called directly, on new logs. The
\* logs it returns and the Entry objects it made are held by the caller only:
\* the steps of outcome show them, the registers never see them.
Collect(lines, relaxed) ==
    LET parsed == parse(lines, heap)
        pair == collect(parsed.commands, Log(<<>>, EmptyDict, parsed.heap),
                        Log(<<>>, EmptyDict, parsed.heap), relaxed, parsed.heap)
    IN  /\ outcome' = Outcome("collect", None, None, pair.raised, pair)
                         @@ [relaxed |-> relaxed]
        /\ UNCHANGED <<heap, lists, patches, registers, applies>>

\* direct calls of collect in either mode, in a process that holds a register
NextCollect ==
    \E lines \in CollectStreams, relaxed \in BOOLEAN : Collect(lines, relaxed)

SpecCollect == InitShared /\ [][NextCollect]_vars

\* Command.__repr__: the line a command is written as
command_repr(c, h) ==
    IF c.action = "add-item" THEN AddItemLine(c.blob)
    ELSE IF c.action = "append-entry"
    THEN AppendEntryLine(h[c.entry].scope, h[c.entry].key, h[c.entry].timestamp,
                         h[c.entry].blob_hash)
    ELSE AssertRootHashLine(c.hash)

\* the lines `for command in patch.commands: click.echo(command)` prints and
\* the lines _apply writes
command_lines(commands, h) == [i \in 1..Len(commands) |-> command_repr(commands[i], h)]

\* the metadata rows of an RSF file whose register is ready, and of one whose
\* register has a name and a single attribute
ReadyMeta ==
    NameRow("pk", InitTimestamp) \o FieldRow("pk", InitTimestamp)
        \o FieldRow("val", InitTimestamp)

UnreadyMeta == NameRow("pk", InitTimestamp) \o FieldRow("pk", InitTimestamp)

\* the RSF files the patch commands are run on
RsfFiles ==
    {meta \o rows : meta \in {<<>>, UnreadyMeta, ReadyMeta},
                    rows \in {<<>>} \cup {InitRow(b, "user") : b \in Blobs}}

\* the RSF file named by --rsf: in SpecCreate the only list is the lines of
\* the file, and each run of the command is a process of its own
RsfFile == lists[1]

\* what a run of `patch create` leaves: the lines it printed, the file it
\* wrote, and the data-log roots of its register before and after the apply
CreateOutcome(raised, pair, blobs, timestamp, apply_flag, emitted, before, after) ==
    Outcome("create", None, None, raised, pair)
        @@ [blobs |-> blobs, timestamp |-> timestamp, apply_flag |-> apply_flag,
            emitted |-> emitted, before |-> before, after |-> after]

\* create(...) from `patch = Patch(schema, blobs, timestamp)` on, for a ready
\* register and at least one row
create_patch(register, h, before, blobs, timestamp, apply_flag) ==
    \E patch \in {patch_collect(register.uid, blobs, timestamp, h)} :
    \E pair \in {collect(patch.commands, register.log, register.metalog, FALSE,
                         patch.heap)} :
        LET errors == apply_result(pair)
            after == log_digest(pair.data)
        IN  IF pair.raised # NoException \/ patch_command_stops(errors)
            THEN /\ outcome' = CreateOutcome(pair.raised, pair, blobs, timestamp,
                                             apply_flag, <<>>, before, after)
                 /\ UNCHANGED lists
            ELSE IF apply_flag
            THEN /\ lists' = [lists EXCEPT ![1] = @ \o command_lines(patch.commands,
                                                                     pair.heap)]
                 /\ outcome' = CreateOutcome(NoException, pair, blobs, timestamp,
                                             apply_flag, <<>>, before, after)
            ELSE /\ outcome' = CreateOutcome(NoException, pair, blobs, timestamp,
                                             apply_flag,
                                             command_lines(patch.commands, pair.heap),
                                             before, after)
                 /\ UNCHANGED lists

\* create_command / create(xsv_file, rsf_file, timestamp, apply_flag), with
\* blobs the rows xsv.deserialise reads from xsv_file
Create(blobs, timestamp, apply_flag) ==
    \E made \in {construct(RsfFile, <<>>, <<>>, <<>>)} :
    \E before \in {log_digest(made.registers[1].log)} :
        /\ made.ok
        /\ apply_flag => Len(RsfFile) + 2 * Len(blobs) <= MaxFileLines
        /\ IF ~is_ready(made.registers[1], made.heap)
           THEN /\ outcome' = CreateOutcome([type |-> "CommandError"], NoPair, blobs,
                                            timestamp, apply_flag, <<>>, before, before)
                /\ UNCHANGED lists
           ELSE IF Len(blobs) = 0
           THEN /\ outcome' = CreateOutcome([type |-> "ValueError"], NoPair, blobs,
                                            timestamp, apply_flag, <<>>, before, before)
                /\ UNCHANGED lists
           ELSE create_patch(made.registers[1], made.heap, before, blobs, timestamp,
                             apply_flag)
        /\ UNCHANGED <<heap, patches, registers, applies>>

NextCreate ==
    \E blobs \in BlobLists, apply_flag \in BOOLEAN : Create(blobs, PatchTimestamp, apply_flag)

InitCreate ==
    \E lines \in RsfFiles :
        /\ heap = <<>>
        /\ lists = <<lines>>
        /\ patches = <<>>
        /\ registers = <<>>
        /\ outcome = Outcome("none", None, None, NoException, NoPair)
        /\ applies = 0

SpecCreate == InitCreate /\ [][NextCreate]_vars

\* the bytes a leaf of a tree can be
Leaves == {"a", "b"}

\* in SpecMerkle the only list is the leaves of the tree
TreeLeaves == lists[1]

\* Tree(leaves) on the leaves grown by one, as Log.insert builds it
NewTree(leaf) ==
    /\ Len(TreeLeaves) < MaxLeaves
    /\ lists' = <<Append(TreeLeaves, leaf)>>
    /\ outcome' = [op |-> "Tree", tree |-> Tree(Append(TreeLeaves, leaf))]
    /\ UNCHANGED <<heap, patches, registers, applies>>

\* path(tree, node_index) on the tree of the leaves
Path(node_index) ==
    /\ outcome' = [op |-> "path", tree |-> outcome.tree, node_index |-> node_index,
                   path |-> path(outcome.tree, node_index, 0)]
    /\ UNCHANGED <<heap, lists, patches, registers, applies>>

NextMerkle ==
    \/ \E leaf \in Leaves : NewTree(leaf)
    \/ \E node_index \in 0..MaxLeaves : Path(node_index)

InitMerkle ==
    /\ heap = <<>>
    /\ lists = <<<<>>>>
    /\ patches = <<>>
    /\ registers = <<>>
    /\ outcome = [op |-> "Tree", tree |-> Tree(<<>>)]
    /\ applies = 0

SpecMerkle == InitMerkle /\ [][NextMerkle]_vars

\* the keys an Entry is made with: any short text, separators included
KeyTexts == SeqsUpTo({"k1", TAB, SPACE}, MaxKeyLen)

TextHashes == {Hash(<<"sha-256">>, <<d>>) : d \in {"d1", "d2"}}

TextEntries ==
    {Entry(key, scope, <<"t1">>, h) : key \in KeyTexts, scope \in Scopes, h \in TextHashes}

\* the values of the fields of a blob: text with what JSON escapes in it
ValueTexts == {<<"k1">>, <<"k1", TAB>>, <<QUOTE>>}

TextBlobs ==
    {TextBlob(JsonObject(f)) :
        f \in UNION {[keys -> {JsonString(v) : v \in ValueTexts}] :
                        keys \in SUBSET {<<"pk">>, <<"val">>}}}

\* the commands of the three kinds
TextCommands ==
    {Command("add-item", b) : b \in TextBlobs}
    \cup {Command("append-entry", e) : e \in TextEntries}
    \cup {Command("assert-root-hash", h) : h \in TextHashes}

\* the commands of the lists given to dump
DumpCommands ==
    {Command("add-item", TextBlob(JsonObject([k \in {<<"pk">>} |-> JsonString(<<"k1">>)]))),
     Command("append-entry", Entry(<<"k1">>, "user", <<"t1">>, Hash(<<"sha-256">>, <<"d1">>))),
     Command("append-entry", Entry(<<>>, "system", <<"t1">>, Hash(<<"sha-256">>, <<"d2">>))),
     Command("append-entry", Entry(<<"k1", TAB>>, "user", <<"t1">>,
                                   Hash(<<"sha-256">>, <<"d1">>))),
     Command("assert-root-hash", Hash(<<"sha-256">>, <<"d1">>))}

\* the texts that follow the action of a line: JSON, entry fields and hashes,
\* well formed and not
GoodJson == <<LBRACE, QUOTE, "pk", QUOTE, COLON, QUOTE, "k1", QUOTE, RBRACE>>

JsonTexts ==
    {GoodJson, GoodJson \o <<NEWLINE>>, <<LBRACE, RBRACE>>, <<QUOTE, "k1", QUOTE>>,
     <<LBRACE, SPACE, QUOTE, "pk", QUOTE, SPACE, COLON, QUOTE, ESC_TAB, QUOTE, RBRACE>>,
     <<LBRACE, QUOTE, "pk", QUOTE, COLON, LBRACE, RBRACE, COMMA,
       QUOTE, "pk", QUOTE, COLON, QUOTE, "k1", QUOTE, RBRACE>>,
     <<>>, <<LBRACE>>, <<"k1">>,
     <<LBRACE, "pk", QUOTE, COLON, QUOTE, "k1", QUOTE, RBRACE>>,
     <<LBRACE, QUOTE, "pk", QUOTE, COLON, QUOTE, "k1", QUOTE, COMMA, RBRACE>>,
     <<LBRACE, QUOTE, "pk", QUOTE, COLON, QUOTE, "k1", TAB, QUOTE, RBRACE>>,
     <<LBRACE, QUOTE, "pk", QUOTE, QUOTE, "k1", QUOTE, RBRACE>>,
     <<LBRACE, RBRACE, RBRACE>>}

GoodHash == <<"sha-256", COLON, "d1">>

HashTexts ==
    {GoodHash, GoodHash \o <<NEWLINE>>, <<SPACE>> \o GoodHash, <<COLON>>,
     <<"d1">>, GoodHash \o <<COLON, "d2">>, <<>>}

EntryFields ==
    {<< <<"user">>, <<"k1">>, <<"t1">>, GoodHash >>,
     << <<"system">>, <<>>, <<>>, <<COLON>> >>,
     << <<"user">>, <<"k1">>, <<"t1">>, GoodHash \o <<NEWLINE>> >>,
     << <<"user">>, <<"k1">>, <<"t1">>, GoodHash, <<>> >>,
     << <<>>, <<"user">>, <<"k1">>, <<"t1">>, GoodHash >>,
     << <<SPACE, "user">>, <<"k1">>, <<"t1">>, GoodHash >>,
     << <<"user">>, <<"k1">>, <<"t1">>, GoodHash, <<"k2">> >>,
     << <<"user">>, <<"k1">>, <<"t1">> >>,
     << <<"system">>, <<"k1">> >>,
     << <<"k1">>, <<"k1">>, <<"t1">>, GoodHash >>,
     << <<"user">>, <<"k1">>, <<"t1">>, <<"d1">> >>,
     << <<"user">>, <<"k1">>, <<"t1">>, GoodHash \o <<COLON, "d2">> >>}

EntryTexts == {join(TAB, fields) : fields \in EntryFields}

ActionTokens == {"add-item", "append-entry", "assert-root-hash", "k1"}

\* the lines given to parse_command: with and without a TAB, every action
\* and an unknown one before every text
ParseLines ==
    {<<>>}
    \cup {<<a>> : a \in ActionTokens}
    \cup {<<a, TAB>> \o rest : a \in ActionTokens,
                                rest \in JsonTexts \cup HashTexts \cup EntryTexts}

\* the lines of the streams given to parse
StreamLines ==
    {<<"add-item", TAB>> \o GoodJson \o <<NEWLINE>>,
     <<"assert-root-hash", TAB>> \o GoodHash \o <<NEWLINE>>,
     <<"append-entry", TAB>> \o join(TAB, << <<"user">>, <<"k1">>, <<"t1">>, GoodHash >>),
     <<"add-item", TAB, LBRACE>>,
     <<"append-entry", TAB>> \o join(TAB, << <<"k1">>, <<"k1">>, <<"t1">>, GoodHash >>),
     <<"assert-root-hash", TAB, "d1">>,
     <<NEWLINE>>}

\* parse_command(original)
ParseCommand(original) ==
    /\ outcome' = [op |-> "parse_command", original |-> original,
                   raised |-> parse_command(original).raised,
                   value |-> parse_command(original).value]
    /\ UNCHANGED <<heap, lists, patches, registers, applies>>

\* parse(patch_lines)
Parse(patch_lines) ==
    /\ outcome' = [op |-> "parse", original |-> patch_lines,
                   raised |-> parse_lines(patch_lines).raised,
                   value |-> parse_lines(patch_lines).value]
    /\ UNCHANGED <<heap, lists, patches, registers, applies>>

\* parse_command(str(c))
ReprThenParse(c) ==
    /\ outcome' = [op |-> "repr", original |-> c, text |-> command_str(c),
                   raised |-> parse_command(command_str(c)).raised,
                   value |-> parse_command(command_str(c)).value]
    /\ UNCHANGED <<heap, lists, patches, registers, applies>>

\* parse(dump(commands).splitlines())
DumpThenParse(commands) ==
    /\ outcome' = [op |-> "dump", original |-> commands, text |-> dump(commands),
                   raised |-> load(dump(commands)).raised,
                   value |-> load(dump(commands)).value]
    /\ UNCHANGED <<heap, lists, patches, registers, applies>>

NextRsf ==
    \/ \E original \in ParseLines : ParseCommand(original)
    \/ \E patch_lines \in SeqsUpTo(StreamLines, MaxLines) : Parse(patch_lines)
    \/ \E c \in TextCommands : ReprThenParse(c)
    \/ \E commands \in SeqsUpTo(DumpCommands, MaxLines) : DumpThenParse(commands)

InitRsf ==
    /\ heap = <<>>
    /\ lists = <<>>
    /\ patches = <<>>
    /\ registers = <<>>
    /\ outcome = [op |-> "none"]
    /\ applies = 0

SpecRsf == InitRsf /\ [][NextRsf]_vars

\* the texts of the values given to validate
ValidateTexts ==
    {<<"foo">>, <<"2019">>, <<"P1Y">>, <<"P">>, <<"P1YT">>, <<"a:b">>, <<"sha-256:aa">>,
     <<"2019-01-01T00:00:00Z">>, <<"https:", SLASH, SLASH, "example.org">>,
     <<"P1Y", SLASH, "2019">>, <<"2019", SLASH, "foo">>, <<"P1Y", SLASH>>,
     <<"2019", SLASH, "2019", SLASH, "2019">>}

\* the elements of the list values
Tokens == {PyStr(<<"2019">>), PyStr(<<"foo">>), PyInt, PyNone}

\* the values of the field `abc`: None, strings, scalars that are no str and
\* lists
AbcValues ==
    {PyNone, PyInt, PyDict}
    \cup {PyStr(s) : s \in ValidateTexts}
    \cup {PyList(tokens) : tokens \in SeqsUpTo(Tokens, MaxTokens)}

\* the values of the fields `id` and `zzz`
IdValues == {PyNone, PyStr(<<"foo">>)}

FieldValues(key) == IF key = "abc" THEN AbcValues ELSE IdValues

\* Python dictionaries of at most MaxFields items, in every iteration order
RECURSIVE DictsOf(_)
DictsOf(n) ==
    IF n = 0 THEN {<<>>}
    ELSE DictsOf(n - 1)
         \cup {Append(d, <<key, value>>) :
                 d \in {x \in DictsOf(n - 1) : Len(x) = n - 1},
                 key \in {"id", "abc", "zzz"}, value \in AbcValues}

ValidateData ==
    {d \in DictsOf(MaxFields) :
        /\ \A i, j \in 1..Len(d) : d[i][1] = d[j][1] => i = j
        /\ \A i \in 1..Len(d) : d[i][2] \in FieldValues(d[i][1])}

\* schemas of primary key `id`: with an attribute `abc` of every datatype and
\* cardinality, without it, and without the attribute of the primary key
ValidateSchemas ==
    {Schema("id", <<Attribute("id", "string", One), Attribute("abc", datatype, cardinality)>>) :
        datatype \in Datatypes, cardinality \in {One, Many}}
    \cup {Schema("id", <<Attribute("id", "string", One)>>),
          Schema("id", <<Attribute("abc", "string", One)>>)}

\* validate(data, schema) on the arguments drawn by InitValidate
Validate ==
    /\ outcome.op = "arguments"
    /\ outcome' = [op |-> "validate", data |-> outcome.data, schema |-> outcome.schema,
                   raised |-> validate(outcome.data, outcome.schema).raised,
                   value |-> validate(outcome.data, outcome.schema).value]
    /\ UNCHANGED <<heap, lists, patches, registers, applies>>

NextValidate == Validate

InitValidate ==
    /\ heap = <<>>
    /\ lists = <<>>
    /\ patches = <<>>
    /\ registers = <<>>
    /\ outcome \in {[op |-> "arguments", data |-> data, schema |-> schema] :
                       data \in ValidateData, schema \in ValidateSchemas}
    /\ applies = 0

SpecValidate == InitValidate /\ [][NextValidate]_vars

-----------------------------------------------------------------------------
(* The properties.                                                         *)

LogNames == {"log", "metalog"}

\* the Entry values a log holds, read from the Entry objects of heap h
LogValues(log, h) == [i \in 1..Len(log.entries) |-> h[log.entries[i]]]

\* the Merkle root of the entries a log holds now
CurrentRoot(log, h) == Hash("sha-256", root_hash(byte_entries(log.entries, h)))

IsPrefix(a, b) == Len(a) <= Len(b) /\ \A i \in 1..Len(a) : a[i] = b[i]

Max(S) == CHOOSE x \in S : \A y \in S : y <= x

\* the last entry of a key in a log, None when the key has none
LatestOf(log, h, key) ==
    LET idx == {i \in 1..Len(log.entries) : h[log.entries[i]].key = key}
    IN  IF idx = {} THEN None ELSE log.entries[Max(idx)]

\* the log an append-entry step of collect is aimed at, before the step
TargetOf(step) ==
    IF step.pre.heap[step.command.entry].scope = "system" THEN "metadata" ELSE "data"

\* C1: in both logs of every register the i-th stored entry has position i,
\* and size is the number of stored entries.
C1_PositionsDense ==
    \A r \in DOMAIN registers : \A l \in LogNames :
        LET log == registers[r][l]
        IN  /\ log.size = Len(log.entries)
            /\ \A i \in 1..Len(log.entries) : heap[log.entries[i]].position = i

\* C2: whenever a log can be observed, Log.digest() is the Merkle root of the
\* canonical bytes of the entries the log holds now (the empty-tree hash for
\* an empty log).
C2_DigestIsMerkleRoot ==
    \A r \in DOMAIN registers : \A l \in LogNames :
        LET log == registers[r][l]
        IN  /\ log_digest(log) = CurrentRoot(log, heap)
            /\ Len(log.entries) = 0 => log_digest(log) = EmptyTreeHash

\* the logs of Register(register.commands)
Replay(reg) ==
    collect(lists[reg.commands], Log(<<>>, EmptyDict, heap), Log(<<>>, EmptyDict, heap),
            FALSE, heap)

SameLog(log, h, other, oh) ==
    /\ LogValues(log, h) = LogValues(other, oh)
    /\ log.blobs = other.blobs
    /\ log.size = other.size
    /\ log_digest(log) = log_digest(other)

\* C3: after construction and any applies, returning or raising, both logs of
\* a register equal the logs of a Register built from register.commands.
C3_StateIsReplayOfCommands ==
    \A r \in DOMAIN registers :
        LET reg == registers[r]
            replay == Replay(reg)
        IN  /\ replay.raised = NoException
            /\ SameLog(reg.log, heap, replay.data, replay.heap)
            /\ SameLog(reg.metalog, heap, replay.metadata, replay.heap)

\* C4: over every Register.apply, returning or raising, the entries a log held
\* before are a prefix of those it holds after, field by field (key, scope,
\* timestamp, blob hash, position), and no size decreases.
C4_AppendOnly ==
    [][outcome'.op = "apply" =>
         \A r \in DOMAIN registers : \A l \in LogNames :
             /\ IsPrefix(LogValues(registers[r][l], heap),
                         LogValues(registers'[r][l], heap'))
             /\ registers'[r][l].size >= registers[r][l].size]_vars

\* the step is an append-entry whose blob hash is the blob digest of the latest
\* record of its key in its target log
IsDuplicateStep(step) ==
    /\ step.command.action = "append-entry"
    /\ LET entry == step.pre.heap[step.command.entry]
           target == step.pre[TargetOf(step)]
           latest == LatestOf(target, step.pre.heap, entry.key)
       IN  /\ latest # None
           /\ blob_digest(target.blobs[step.pre.heap[latest].blob_hash]) = entry.blob_hash

\* C5: in non-relaxed collect a duplicate append-entry is not appended: the
\* target log keeps its entries, size and root hash, exactly one
\* DuplicatedEntry joins the errors, nothing is raised, and the command after
\* it is processed.
C5_DuplicateSuppressed ==
    \A i \in DOMAIN outcome.steps :
        LET step == outcome.steps[i]
            t == TargetOf(step)
        IN  IsDuplicateStep(step) =>
                /\ step.raised = NoException
                /\ step.post[t].entries = step.pre[t].entries
                /\ step.post[t].size = step.pre[t].size
                /\ log_digest(step.post[t]) = log_digest(step.pre[t])
                /\ CurrentRoot(step.post[t], step.post.heap)
                     = CurrentRoot(step.pre[t], step.pre.heap)
                /\ Len(step.post.errors) = Len(step.pre.errors) + 1
                /\ step.post.errors[Len(step.post.errors)].type = "DuplicatedEntry"
                /\ SubSeq(step.post.errors, 1, Len(step.pre.errors)) = step.pre.errors
                /\ i < Len(outcome.commands) => i < Len(outcome.steps)

\* a duplicate append-entry was met and a command after it was processed
C5_Witness ==
    \E i \in DOMAIN outcome.steps :
        /\ IsDuplicateStep(outcome.steps[i])
        /\ i < Len(outcome.steps)

C7_SecondApplyAddsNothing ==
    [][(/\ outcome.op = "apply" /\ outcome.raised = NoException
        /\ outcome'.op = "apply"
        /\ outcome'.register = outcome.register
        /\ outcome'.patch = outcome.patch
        /\ Len(patches[outcome.patch].blobs) > 0
        /\ ~is_sealed(lists[patches[outcome.patch].commands]))
       => (/\ \A l \in LogNames :
                  /\ registers'[outcome.register][l].size = registers[outcome.register][l].size
                  /\ log_digest(registers'[outcome.register][l])
                       = log_digest(registers[outcome.register][l])
           /\ outcome'.raised = NoException
           /\ Len(outcome'.errors) = Len(patches[outcome.patch].blobs))]_vars

\* C8: Register.apply hands its caller every DuplicatedEntry the collector
\* accumulated, so that patch create and patch apply stop before the patch is
\* appended to the RSF file.
C8_ApplySurfacesErrors ==
    (outcome.op = "apply" /\ outcome.raised = NoException /\ Len(outcome.errors) > 0)
        => (/\ outcome.returned = outcome.errors
            /\ patch_command_stops(outcome.returned))

\* the blob pool before step i: the blobs of both logs at the start of the
\* call and the blob of every add-item among the commands before i
PoolBefore(i) ==
    DOMAIN outcome.steps[1].pre.data.blobs
    \cup DOMAIN outcome.steps[1].pre.metadata.blobs
    \cup {blob_digest(outcome.commands[j].blob) :
            j \in {k \in 1..(i - 1) : outcome.commands[k].action = "add-item"}}

IsOrphanStep(i) ==
    /\ outcome.steps[i].command.action = "append-entry"
    /\ outcome.steps[i].pre.heap[outcome.steps[i].command.entry].blob_hash
         \notin PoolBefore(i)

\* C9: an append-entry whose blob hash is not in the blob pool makes collect
\* raise OrphanEntry before the command changes either log, and no later
\* command is processed.
C9_OrphanAborts ==
    \A i \in DOMAIN outcome.steps :
        IsOrphanStep(i) =>
            /\ outcome.steps[i].raised = OrphanEntry(outcome.steps[i].command.entry)
            /\ outcome.raised = OrphanEntry(outcome.steps[i].command.entry)
            /\ outcome.steps[i].post.data = outcome.steps[i].pre.data
            /\ outcome.steps[i].post.metadata = outcome.steps[i].pre.metadata
            /\ outcome.steps[i].post.heap = outcome.steps[i].pre.heap
            /\ i = Len(outcome.steps)

\* an orphan entry was met after an earlier command of the call changed a log
\* and before the last command of the call
C9_Witness ==
    \E i \in DOMAIN outcome.steps :
        /\ IsOrphanStep(i)
        /\ i < Len(outcome.commands)
        /\ \E j \in 1..(i - 1) :
               outcome.steps[j].post.data.entries # outcome.steps[j].pre.data.entries

\* the user-scope append-entry commands of the call before command i
UserAppendsBefore(i) ==
    Cardinality({j \in 1..(i - 1) :
                   /\ outcome.commands[j].action = "append-entry"
                   /\ heap[outcome.commands[j].entry].scope = "user"})

IsAssertStep(i) == outcome.steps[i].command.action = "assert-root-hash"

\* the asserted hash is the root hash the data log reports
AssertMatches(i) ==
    outcome.steps[i].command.hash = log_digest(outcome.steps[i].pre.data)

\* the step raised InconsistentLog with the asserted hash as expected and the
\* data log's root as actual
RaisesInconsistent(i) ==
    /\ outcome.steps[i].raised.type = "InconsistentLog"
    /\ outcome.steps[i].raised.expected = outcome.steps[i].command.hash
    /\ outcome.steps[i].raised.actual = log_digest(outcome.steps[i].pre.data)
    /\ outcome.raised = outcome.steps[i].raised
    /\ i = Len(outcome.steps)

\* the step changed nothing and collect went on to the next command
PassesUnchanged(i) ==
    /\ outcome.steps[i].raised = NoException
    /\ outcome.steps[i].post = outcome.steps[i].pre
    /\ i < Len(outcome.commands) => i < Len(outcome.steps)

\* C10 as stated: a failing assert-root-hash raises InconsistentLog whose size
\* is the number of user-scope append-entry commands consumed before it; a
\* matching one changes nothing and collection continues.
C10_SizeIsConsumedUserEntries ==
    \A i \in DOMAIN outcome.steps :
        IsAssertStep(i) =>
            IF AssertMatches(i) THEN PassesUnchanged(i)
            ELSE /\ RaisesInconsistent(i)
                 /\ outcome.steps[i].raised.size = UserAppendsBefore(i)

\* C10 amended: the size carried by InconsistentLog is the number of entries
\* the data log holds when the assertion is evaluated.
C10_SizeIsDataLogSize ==
    \A i \in DOMAIN outcome.steps :
        IsAssertStep(i) =>
            IF AssertMatches(i) THEN PassesUnchanged(i)
            ELSE /\ RaisesInconsistent(i)
                 /\ outcome.steps[i].raised.size = Len(outcome.steps[i].pre.data.entries)

\* one call met a matching assertion, went on, and then a failing one on a
\* data log of two or more entries
C10_Witness ==
    \E i \in DOMAIN outcome.steps : \E j \in DOMAIN outcome.steps :
        /\ i < j
        /\ IsAssertStep(i) /\ AssertMatches(i)
        /\ IsAssertStep(j) /\ ~AssertMatches(j)
        /\ outcome.steps[j].raised.type = "InconsistentLog"
        /\ outcome.steps[j].raised.size >= 2

\* every entry a log stores has its blob in the blob map of that log, under
\* the blob's own digest
BlobsConsistent(log, h) ==
    \A i \in 1..Len(log.entries) :
        LET bh == h[log.entries[i]].blob_hash
        IN  bh \in DOMAIN log.blobs /\ blob_digest(log.blobs[bh]) = bh

\* C11: in every state of a log built by collect, relaxed or not (the logs of
\* the registers, and both logs after every command of every collect call),
\* each stored entry's blob hash is a key of that log's blob map and the blob
\* mapped to it has that digest, so snapshot, records and find build every
\* Record.
C11_EntriesHaveTheirBlobs ==
    /\ \A r \in DOMAIN registers : \A l \in LogNames :
           BlobsConsistent(registers[r][l], heap)
    /\ \A i \in DOMAIN outcome.steps :
           /\ BlobsConsistent(outcome.steps[i].post.data, outcome.steps[i].post.heap)
           /\ BlobsConsistent(outcome.steps[i].post.metadata, outcome.steps[i].post.heap)

\* a relaxed collect call ended with two entries in one log
C11_Witness ==
    /\ outcome.op = "collect"
    /\ outcome.relaxed
    /\ Len(outcome.steps) > 0
    /\ \E t \in {"data", "metadata"} :
           Len(outcome.steps[Len(outcome.steps)].post[t].entries) >= 2

\* the `name` value of the blob of the latest metadata entry with key `name`,
\* NoUid when the metadata log has no such entry
LatestName(reg, h) ==
    LET latest == LatestOf(reg.metalog, h, "name")
    IN  IF latest = None THEN NoUid
        ELSE blob_get(reg.metalog.blobs[h[latest].blob_hash], "name")

\* C12: after construction and any applies, register.uid is the `name` value
\* of the latest metadata entry with key `name`, and None exactly when there
\* is none; a patch that appends a `name` entry updates uid.
C12_UidIsLatestName ==
    \A r \in DOMAIN registers : registers[r].uid = LatestName(registers[r], heap)

\* C13: Register.apply on a register that is not ready is rejected with
\* CommandError and appends nothing to either log.
C13_OnlyReadyAccepts ==
    [][(outcome'.op = "apply" /\ ~is_ready(registers[outcome'.register], heap))
         => (/\ outcome'.raised.type = "CommandError"
             /\ \A l \in LogNames :
                    registers'[outcome'.register][l].entries
                      = registers[outcome'.register][l].entries)]_vars

\* the digests of the blobs that the add-item commands of a list introduce
ItemsOf(commands) ==
    {blob_digest(commands[j].blob) :
       j \in {k \in DOMAIN commands : commands[k].action = "add-item"}}

\* C14: an append-entry of a patch that refers to a blob introduced by an
\* add-item among the commands the register loaded or applied before is
\* appended (or suppressed as a duplicate) by Register.apply and never raises
\* OrphanEntry, whether or not an earlier entry referred to that blob.
C14_EarlierItemsArePooled ==
    [][outcome'.op = "apply" =>
         \A i \in DOMAIN outcome'.steps :
             LET step == outcome'.steps[i]
             IN  (/\ step.command.action = "append-entry"
                  /\ step.pre.heap[step.command.entry].blob_hash
                        \in ItemsOf(lists[registers[outcome'.register].commands]))
                 => step.raised.type # "OrphanEntry"]_vars

\* what can be observed of a register: the entries of both logs with their
\* positions, the root hashes, sizes and blob maps, and the archived commands
Observable(reg, h, ls) ==
    [log |-> LogValues(reg.log, h), metalog |-> LogValues(reg.metalog, h),
     digests |-> <<log_digest(reg.log), log_digest(reg.metalog)>>,
     roots |-> <<CurrentRoot(reg.log, h), CurrentRoot(reg.metalog, h)>>,
     sizes |-> <<reg.log.size, reg.metalog.size>>,
     blobs |-> <<reg.log.blobs, reg.metalog.blobs>>,
     commands |-> ls[reg.commands]]

\* C15: constructing a Register or applying a patch to it changes nothing
\* that can be observed of any other Register, also when one Patch object is
\* applied to both.
C15_RegistersAreIndependent ==
    [][outcome'.op \in {"apply", "Register"} =>
         \A r \in DOMAIN registers :
             r # outcome'.register =>
                 Observable(registers'[r], heap', lists') = Observable(registers[r], heap, lists)]_vars

\* the last operation was a direct call of collect with relaxed=True
IsRelaxedCall == outcome.op = "collect" /\ outcome.relaxed

\* C16 as stated: in relaxed collect a duplicate append-entry records no
\* DuplicatedEntry and is not appended: size and root hash of the target log
\* stay as they were.
C16_RelaxedNotAppended ==
    IsRelaxedCall =>
        \A i \in DOMAIN outcome.steps :
            LET step == outcome.steps[i]
                t == TargetOf(step)
            IN  IsDuplicateStep(step) =>
                    /\ step.raised = NoException
                    /\ step.post.errors = step.pre.errors
                    /\ step.post[t].size = step.pre[t].size
                    /\ log_digest(step.post[t]) = log_digest(step.pre[t])

\* C16 amended: in relaxed collect a duplicate append-entry records no
\* DuplicatedEntry and is appended like any other entry: the target log gains
\* the entry at position size + 1 and its root hash is that of the longer
\* sequence.
C16_RelaxedAppendsDuplicate ==
    IsRelaxedCall =>
        \A i \in DOMAIN outcome.steps :
            LET step == outcome.steps[i]
                t == TargetOf(step)
            IN  IsDuplicateStep(step) =>
                    /\ step.raised = NoException
                    /\ step.post.errors = step.pre.errors
                    /\ step.post[t].entries = Append(step.pre[t].entries, step.command.entry)
                    /\ step.post[t].size = step.pre[t].size + 1
                    /\ step.post.heap[step.command.entry].position = step.post[t].size
                    /\ log_digest(step.post[t]) = CurrentRoot(step.post[t], step.post.heap)
                    /\ log_digest(step.post[t]) # log_digest(step.pre[t])

\* a relaxed collect call met a duplicate append-entry
C16_Witness ==
    /\ IsRelaxedCall
    /\ \E i \in DOMAIN outcome.steps : IsDuplicateStep(outcome.steps[i])

\* C17: when Register.apply returns, register.commands is what it was followed
\* by patch.commands in order; when it raises, register.commands is what it was.
C17_CommandsArchived ==
    [][outcome'.op = "apply" =>
         LET reg == registers[outcome'.register]
             before == lists[reg.commands]
             after == lists'[registers'[outcome'.register].commands]
         IN  /\ registers'[outcome'.register].commands = reg.commands
             /\ IF outcome'.raised = NoException
                THEN after = before \o lists[patches[outcome'.patch].commands]
                ELSE after = before]_vars

\* an apply returned on a register that had commands archived, and the
\* commands of the patch were added to them
C17_Witness ==
    /\ outcome.op = "apply"
    /\ outcome.raised = NoException
    /\ Len(outcome.commands) > 0
    /\ Len(lists[registers[outcome.register].commands]) > Len(outcome.commands)

\* an apply raised after its first command had been processed
C17_RaisingWitness ==
    /\ outcome.op = "apply"
    /\ outcome.raised # NoException
    /\ Len(outcome.steps) > 1
    /\ Len(lists[registers[outcome.register].commands]) > 0

\* the last operation applied a sealed patch
IsSealedApply == outcome.op = "apply" /\ is_sealed(outcome.commands)

\* the opening assertion of the applied patch names the root hash the data log
\* reports when the patch starts
StartMatches ==
    outcome.commands[1].hash = log_digest(outcome.steps[1].pre.data)

\* the closing assertion of the applied patch was evaluated
ClosingReached == Len(outcome.steps) = Len(outcome.commands)

\* the data log as the commands between the assertions left it
DataAfterPatch ==
    IF ClosingReached THEN outcome.steps[Len(outcome.steps)].pre.data
    ELSE outcome.steps[Len(outcome.steps)].post.data

\* the closing assertion of the applied patch names the root hash the data log
\* reports after the commands between the assertions
EndMatches ==
    outcome.commands[Len(outcome.commands)].hash = log_digest(DataAfterPatch)

\* Patch.seal(start, end) put assert-root-hash(start) first and
\* assert-root-hash(end) last, around the commands the patch had, and
\* is_sealed() is true
SealBrackets ==
    outcome'.op = "seal" =>
        LET c == patches[outcome'.patch].commands
        IN  /\ lists'[c] = <<assert_root_hash(outcome'.start)>> \o lists[c]
                             \o <<assert_root_hash(outcome'.end)>>
            /\ is_sealed(lists'[c])

\* Register.apply of a sealed patch returns only if both assertions match, and
\* raises InconsistentLog whenever one of them does not
SealedApplyOrInconsistent ==
    IsSealedApply =>
        /\ outcome.raised = NoException => (StartMatches /\ EndMatches)
        /\ ~(StartMatches /\ EndMatches) => outcome.raised.type = "InconsistentLog"

\* C18 as stated: seal brackets the commands with the two assertions, and
\* Register.apply of a sealed patch returns only if the data-log root before
\* the patch equals start and the root after it equals end, and raises
\* InconsistentLog otherwise.
C18_SealedApplyOrInconsistent ==
    [][SealBrackets /\ SealedApplyOrInconsistent']_vars

\* Register.apply of a sealed patch returns only if both assertions match; it
\* raises InconsistentLog at the first command when start does not match, and
\* at the last when that is reached and end does not match; any other
\* exception is the OrphanEntry of a command between the assertions
SealedApplyChecked ==
    IsSealedApply =>
        /\ outcome.raised = NoException => (StartMatches /\ EndMatches /\ ClosingReached)
        /\ ~StartMatches =>
               (outcome.raised.type = "InconsistentLog" /\ Len(outcome.steps) = 1)
        /\ (StartMatches /\ ClosingReached /\ ~EndMatches) =>
               outcome.raised.type = "InconsistentLog"
        /\ (StartMatches /\ ~ClosingReached) =>
               (outcome.raised.type = "OrphanEntry" /\ IsOrphanStep(Len(outcome.steps)))

\* C18 amended: seal brackets the commands with the two assertions, and
\* Register.apply of a sealed patch returns only if both assertions match the
\* data-log root; it raises InconsistentLog when an assertion that is
\* evaluated does not match, and OrphanEntry when a command between the
\* assertions refers to a missing blob, before the closing assertion is
\* evaluated.
C18_SealedApplyChecked ==
    [][SealBrackets /\ SealedApplyChecked']_vars

\* a sealed patch was accepted and a log gained an entry from it
C18_Witness ==
    /\ IsSealedApply
    /\ outcome.raised = NoException
    /\ \E i \in DOMAIN outcome.steps :
           outcome.steps[i].post.data.entries # outcome.steps[i].pre.data.entries

-----------------------------------------------------------------------------
(* C19 *)

\* the add-item/append-entry pair that a patch gives the row blob
PatchRow(blob, primary_key, timestamp) ==
    <<AddItemLine(blob),
      AppendEntryLine("user", blob_get(blob, primary_key), timestamp, blob_digest(blob))>>

RECURSIVE PatchRows(_, _, _)
PatchRows(blobs, primary_key, timestamp) ==
    IF Len(blobs) = 0 THEN <<>>
    ELSE PatchRow(Head(blobs), primary_key, timestamp)
             \o PatchRows(Tail(blobs), primary_key, timestamp)

\* a run of `patch create` without --apply that ended normally
IsCreateOutput ==
    outcome.op = "create" /\ ~outcome.apply_flag /\ outcome.raised = NoException

\* C19: `patch create` without --apply prints a sealed patch: the first line
\* is assert-root-hash of the data-log root before the patch, then come the
\* add-item/append-entry pair of each input row in row order, and the last
\* line is assert-root-hash of the data-log root after the patch was applied
\* in memory.
C19_CreateEmitsSealedPatch ==
    IsCreateOutput =>
        outcome.emitted = <<AssertRootHashLine(outcome.before)>>
                              \o PatchRows(outcome.blobs, PrimaryKey, outcome.timestamp)
                              \o <<AssertRootHashLine(outcome.after)>>

\* what the code prints: the pairs alone
CreateEmitsRowsOnly ==
    IsCreateOutput =>
        outcome.emitted = PatchRows(outcome.blobs, PrimaryKey, outcome.timestamp)

-----------------------------------------------------------------------------
(* C20 *)

\* the patch p holds, for the i-th of blobs, add-item(blob) at 2i-1 and at 2i
\* an append-entry of a new Entry with the blob's primary-key value as key,
\* scope user, the timestamp and the blob's digest; and nothing else
HoldsPairsOf(p, blobs, timestamp, ls, h) ==
    LET commands == ls[p.commands]
    IN  /\ p.timestamp = timestamp
        /\ Len(commands) = 2 * Len(blobs)
        /\ \A i \in 1..Len(blobs) :
               /\ commands[2 * i - 1] = add_item(blobs[i])
               /\ commands[2 * i].action = "append-entry"
               /\ h[commands[2 * i].entry]
                      = Entry(blob_get(blobs[i], PrimaryKey), "user", timestamp,
                              blob_digest(blobs[i]))

\* C20: Patch(schema, blobs, timestamp) with n blobs makes a patch of exactly
\* 2n commands, add-item(blob) then append-entry(key = the blob's primary-key
\* value, scope user, the patch timestamp, the blob's digest) for each blob in
\* order; with no data it raises ValueError and makes no patch.
C20_PatchFromBlobsHoldsPairs ==
    [][\A blobs \in BlobLists :
          PatchFromBlobs(blobs, PatchTimestamp) =>
              IF Len(blobs) = 0
              THEN outcome'.raised.type = "ValueError" /\ patches' = patches
              ELSE /\ outcome'.raised = NoException
                   /\ Len(patches') = Len(patches) + 1
                   /\ HoldsPairsOf(patches'[Len(patches')], blobs, PatchTimestamp,
                                   lists', heap')]_vars

\* a patch has just been made from two different blobs
C20_Witness ==
    /\ outcome.op = "Patch"
    /\ outcome.patch # None
    /\ Len(patches[outcome.patch].blobs) = 2
    /\ patches[outcome.patch].blobs[1] # patches[outcome.patch].blobs[2]
    /\ HoldsPairsOf(patches[outcome.patch], patches[outcome.patch].blobs,
                    PatchTimestamp, lists, heap)

-----------------------------------------------------------------------------
(* C21 *)

\* the keys of the first n entries of a log
KeysAmong(log, h, n) == {h[log.entries[i]].key : i \in 1..n}

\* oid is the entry of key with the greatest position not above n
IsLatestByPosition(log, h, n, key, oid) ==
    /\ \E i \in 1..Len(log.entries) : log.entries[i] = oid
    /\ h[oid].key = key
    /\ h[oid].position <= n
    /\ \A i \in 1..Len(log.entries) :
           (h[log.entries[i]].key = key /\ h[log.entries[i]].position <= n)
               => h[log.entries[i]].position <= h[oid].position

\* snapshot(n) has one record per key of the first n entries, each holding the
\* entry of greatest position <= n of its key and the blob of that entry
SnapshotIsLatest(log, h, n) ==
    LET snap == snapshot(log, h, n)
    IN  /\ DOMAIN snap = KeysAmong(log, h, n)
        /\ \A key \in DOMAIN snap :
               /\ IsLatestByPosition(log, h, n, key, snap[key].entry)
               /\ blob_digest(snap[key].blob) = h[snap[key].entry].blob_hash

\* trail(key) lists the entries of key by increasing position, the entry of
\* record(key) last
TrailIsOrdered(reg, h, key) ==
    LET t == register_trail(reg, h, key)
    IN  /\ \A i \in 1..Len(t) : h[t[i]].key = key
        /\ \A i \in 1..Len(reg.log.entries) :
               h[reg.log.entries[i]].key = key
                   => \E j \in 1..Len(t) : t[j] = reg.log.entries[i]
        /\ \A i, j \in 1..Len(t) : i < j => h[t[i]].position < h[t[j]].position
        /\ IF Len(t) = 0 THEN record(reg, h, key) = NoRecord
           ELSE record(reg, h, key) # NoRecord /\ record(reg, h, key).entry = t[Len(t)]

\* C21: snapshot(n) of every log holds, for each key among the first n
\* entries, the entry with the greatest position <= n and its blob; records()
\* is snapshot(size), record(key) is that record or None, and trail(key) is in
\* increasing position order with the entry of record(key) last.
C21_SnapshotIsLatestByPosition ==
    \A r \in DOMAIN registers :
        /\ \A n \in 0..registers[r].log.size :
               SnapshotIsLatest(registers[r].log, heap, n)
        /\ \A n \in 0..registers[r].metalog.size :
               SnapshotIsLatest(registers[r].metalog, heap, n)
        /\ records(registers[r], heap)
               = snapshot(registers[r].log, heap, registers[r].log.size)
        /\ \A key \in Keys : TrailIsOrdered(registers[r], heap, key)

\* the same read by place in the list instead of by Entry.position: record
\* holds the last of the first n entries that has its key
SnapshotIsLastInList ==
    \A r \in DOMAIN registers : \A n \in 0..registers[r].log.size :
        LET log == registers[r].log
            snap == snapshot(log, heap, n)
        IN  /\ DOMAIN snap = KeysAmong(log, heap, n)
            /\ \A key \in DOMAIN snap :
                   /\ snap[key].entry = LatestOf(Log(SubSeq(log.entries, 1, n), log.blobs,
                                                     heap), heap, key)
                   /\ blob_digest(snap[key].blob) = heap[snap[key].entry].blob_hash

-----------------------------------------------------------------------------
(* C22 *)

RECURSIVE SplitPoint(_, _)
\* the largest power of two smaller than n, searched upwards from k
SplitPoint(n, k) == IF 2 * k < n THEN SplitPoint(n, 2 * k) ELSE k

RECURSIVE MTH(_)
\* the Merkle Tree Hash of RFC 6962, section 2.1
MTH(leaves) ==
    LET n == Len(leaves)
        k == SplitPoint(n, 1)
    IN  IF n = 0 THEN hash_empty
        ELSE IF n = 1 THEN hash_leaf(leaves[1])
        ELSE hash_node(MTH(SubSeq(leaves, 1, k)), MTH(SubSeq(leaves, k + 1, n)))

\* C22: the root hash of the level-by-level construction with orphan
\* promotion equals the recursive Merkle Tree Hash of RFC 6962 of the leaves.
C22_RootHashIsMTH ==
    /\ outcome.tree.leaves = TreeLeaves
    /\ outcome.tree.root_hash = MTH(TreeLeaves)

\* a tree in which an orphan is promoted through two levels
C22_Witness ==
    /\ outcome.op = "Tree"
    /\ outcome.tree.width = 5
    /\ outcome.tree.levels[2][3] = outcome.tree.levels[1][5]
    /\ outcome.tree.levels[3][2] = outcome.tree.levels[1][5]
    /\ outcome.tree.root_hash = MTH(TreeLeaves)

-----------------------------------------------------------------------------
(* C29 *)

RECURSIVE FoldPath(_, _, _, _)
\* fold the digests of an audit path into the hash of a node, bottom up: at a
\* level where the node has a sibling within the width the next digest is
\* combined with it, on the left when the node index is odd; other levels are
\* skipped. `rest` is what is left of the path at the root, `short` tells that
\* the path ended early.
FoldPath(hash, digests, index, last) ==
    IF last = 0 THEN [hash |-> hash, rest |-> digests, short |-> FALSE]
    ELSE LET has_sibling == IF index % 2 = 1 THEN TRUE ELSE index + 1 <= last
         IN  IF ~has_sibling
             THEN FoldPath(hash, digests, index \div 2, last \div 2)
             ELSE IF Len(digests) = 0
             THEN [hash |-> hash, rest |-> digests, short |-> TRUE]
             ELSE FoldPath(IF index % 2 = 1 THEN hash_node(Head(digests), hash)
                           ELSE hash_node(hash, Head(digests)),
                           Tail(digests), index \div 2, last \div 2)

\* the fold of the path of leaf i of the tree
FoldOf(tree, node_index, digests) ==
    FoldPath(hash_leaf(tree.leaves[node_index + 1]), digests, node_index, tree.width - 1)

\* C29: for a tree of n >= 1 leaves and 0 <= i < n, folding the hash of leaf i
\* with the digests of path(tree, i) bottom up gives tree.root_hash and uses
\* the whole path; for an empty tree and for i >= n the path is empty.
C29_PathFoldsToRoot ==
    outcome.op = "path" =>
        IF outcome.tree.width = 0 \/ outcome.node_index >= outcome.tree.width
        THEN outcome.path = <<>>
        ELSE FoldOf(outcome.tree, outcome.node_index, outcome.path)
                 = [hash |-> outcome.tree.root_hash, rest |-> <<>>, short |-> FALSE]

\* the path of the orphan leaf of a tree of five leaves: two levels give no
\* sibling, the path is the one digest of the subtree of the other four
C29_Witness ==
    /\ outcome.op = "path"
    /\ outcome.tree.width = 5
    /\ outcome.node_index = 4
    /\ outcome.path = <<outcome.tree.levels[3][1]>>
    /\ FoldOf(outcome.tree, 4, outcome.path).hash = outcome.tree.root_hash

-----------------------------------------------------------------------------
(* C23 *)

\* the text that dump is said to emit: the commands joined by newline, with
\* one newline after the last
JoinedByNewline(commands) ==
    join(NEWLINE, [i \in 1..Len(commands) |-> command_str(commands[i])]) \o <<NEWLINE>>

\* C23: parse_command(str(c)) gives a command with the action and the value
\* fields of c, for every command c of the three kinds; and for every command
\* list cs, dump(cs) is the commands joined by newline with one trailing
\* newline and parsing its lines gives cs.
C23_ReprParseRoundTrip ==
    /\ outcome.op = "repr" =>
           /\ outcome.raised = NoException
           /\ outcome.value = outcome.original
    /\ outcome.op = "dump" =>
           /\ outcome.text = JoinedByNewline(outcome.original)
           /\ outcome.raised = NoException
           /\ outcome.value = outcome.original

\* a command whose text has the TABs of the format only: no entry key with a
\* TAB in it
HasPlainKey(c) ==
    "key" \in DOMAIN c.value => \A i \in 1..Len(c.value.key) : c.value.key[i] # TAB

\* the round trip of the commands with plain keys and of the lists of at
\* least one of them
PlainKeysRoundTrip ==
    /\ (outcome.op = "repr" /\ HasPlainKey(outcome.original)) =>
           /\ outcome.raised = NoException
           /\ outcome.value = outcome.original
    /\ (outcome.op = "dump" /\ Len(outcome.original) > 0
           /\ \A i \in 1..Len(outcome.original) : HasPlainKey(outcome.original[i])) =>
           /\ outcome.text = JoinedByNewline(outcome.original)
           /\ outcome.raised = NoException
           /\ outcome.value = outcome.original

-----------------------------------------------------------------------------
(* C24 *)

KnownActions == {<<"add-item">>, <<"append-entry">>, <<"assert-root-hash">>}

ColonCount(text) == Cardinality({i \in 1..Len(text) : text[i] = COLON})

\* the error category of an append-entry whose fields are these, "None" when
\* they are four, the first a scope and the last a hash with one colon
EntryCategory(fields) ==
    IF Len(fields) # 4 THEN "AppendEntryCommandException"
    ELSE IF fields[1] \notin {<<"user">>, <<"system">>} THEN "AppendEntryCommandException"
    ELSE IF ColonCount(fields[4]) # 1 THEN "AppendEntryCommandException"
    ELSE "None"

\* the error category of a line, "None" for a line that is not malformed;
\* fields_of tells how the text after the action is cut into fields
CategoryOf(line, fields_of(_)) ==
    LET parts == split_once(line, TAB)
    IN  IF Len(parts) # 2 \/ parts[1] \notin KnownActions THEN "UnknownCommand"
        ELSE IF parts[1] = <<"add-item">>
        THEN IF json_loads(strip(parts[2])).ok THEN "None" ELSE "AddItemCommandException"
        ELSE IF parts[1] = <<"append-entry">> THEN EntryCategory(fields_of(parts[2]))
        ELSE IF ColonCount(parts[2]) # 1 THEN "AssertRootHashCommandException"
        ELSE "None"

\* the fields as they stand in the line
RawFields(rest) == split(rest, TAB)

\* the fields once leading and trailing whitespace, TABs included, is
\* stripped from the text after the action
StrippedFields(rest) == split(strip(rest), TAB)

RawCategory(line) == CategoryOf(line, RawFields)
StrippedCategory(line) == CategoryOf(line, StrippedFields)

\* C24 as stated: every malformed line raises the error of its category and
\* gives no command, the fields of an append-entry counted as they stand in
\* the line; a stream with a malformed line raises and gives no commands.
C24_MalformedRaisesRawCategory ==
    /\ (outcome.op = "parse_command" /\ RawCategory(outcome.original) # "None") =>
           /\ outcome.raised = [type |-> RawCategory(outcome.original)]
           /\ outcome.value = <<>>
    /\ (outcome.op = "parse"
           /\ \E i \in 1..Len(outcome.original) : RawCategory(outcome.original[i]) # "None") =>
           /\ outcome.raised # NoException
           /\ outcome.value = <<>>

\* the first line of a stream that is malformed
FirstMalformed(patch_lines) ==
    LET bad == {i \in 1..Len(patch_lines) : StrippedCategory(patch_lines[i]) # "None"}
    IN  patch_lines[CHOOSE i \in bad : \A j \in bad : i <= j]

\* C24: parse_command raises the error of the line's category exactly when
\* the line is malformed, and then gives no command; the fields of an
\* append-entry are counted and read after the text that follows the action
\* is stripped of leading and trailing whitespace. parse of a stream raises
\* the error of its first malformed line and gives no commands, and gives one
\* command per line when no line is malformed.
C24_MalformedRaisesItsCategory ==
    /\ outcome.op = "parse_command" =>
           /\ outcome.raised = [type |-> StrippedCategory(outcome.original)]
           /\ outcome.raised # NoException => outcome.value = <<>>
           /\ outcome.raised = NoException =>
                  <<outcome.value.action>> = split_once(outcome.original, TAB)[1]
    /\ outcome.op = "parse" =>
           IF \E i \in 1..Len(outcome.original) :
                  StrippedCategory(outcome.original[i]) # "None"
           THEN /\ outcome.raised
                      = [type |-> StrippedCategory(FirstMalformed(outcome.original))]
                /\ outcome.value = <<>>
           ELSE /\ outcome.raised = NoException
                /\ Len(outcome.value) = Len(outcome.original)

\* an append-entry line of four fields whose scope token is no scope was
\* refused with the error of append-entry
C24_Witness ==
    /\ outcome.op = "parse_command"
    /\ Len(split_once(outcome.original, TAB)) = 2
    /\ split_once(outcome.original, TAB)[1] = <<"append-entry">>
    /\ Len(StrippedFields(split_once(outcome.original, TAB)[2])) = 4
    /\ StrippedFields(split_once(outcome.original, TAB)[2])[1] = <<"k1">>
    /\ outcome.raised = [type |-> "AppendEntryCommandException"]
    /\ outcome.value = <<>>

-----------------------------------------------------------------------------
(* C25 *)

\* the text is a period: a duration, or two parts, each a datetime or a
\* duration, joined by one "/"
IsPeriod(s) ==
    \/ is_valid_duration(s)
    \/ \E a, b \in {x \in ValidateTexts : is_valid_period_part(x)} \cup {<<>>} :
           /\ s = a \o <<SLASH>> \o b
           /\ is_valid_period_part(a) /\ is_valid_period_part(b)

\* the string matches the datatype
MatchesDatatype(s, datatype) ==
    CASE datatype = "curie" -> validate_curie(s)
      [] datatype = "datetime" -> validate_datetime(s)
      [] datatype = "name" -> validate_name(s)
      [] datatype = "hash" -> validate_hash(s)
      [] datatype = "integer" -> validate_integer(s)
      [] datatype = "period" -> IsPeriod(s)
      [] datatype = "timestamp" -> validate_timestamp(s)
      [] datatype = "url" -> validate_url(s)
      [] OTHER -> TRUE

InvalidValue(datatype) ==
    CASE datatype = "curie" -> "InvalidCurieValue"
      [] datatype = "datetime" -> "InvalidDatetimeValue"
      [] datatype = "name" -> "InvalidNameValue"
      [] datatype = "hash" -> "InvalidHashValue"
      [] datatype = "integer" -> "InvalidIntegerValue"
      [] datatype = "period" -> "InvalidPeriodValue"
      [] datatype = "timestamp" -> "InvalidTimestampValue"
      [] datatype = "url" -> "InvalidUrlValue"
      [] OTHER -> "None"

\* the check a string or list element fails, "None" when it fails none
ElementCheck(token, attr) ==
    IF token.t # "str" THEN "RepresentationError"
    ELSE IF ~MatchesDatatype(token.s, attr.datatype) THEN InvalidValue(attr.datatype)
    ELSE "None"

\* the first check a field fails, "None" when it fails none
FieldCheck(key, value, schema) ==
    LET attr == schema_get(schema, key)
        tokens == IF value.t = "list" THEN value.tokens ELSE <<value>>
        failing == {i \in 1..Len(tokens) : ElementCheck(tokens[i], attr) # "None"}
    IN  IF attr = NoAttribute THEN "UnknownAttribute"
        ELSE IF value.t = "NoneType" THEN "None"
        ELSE IF (value.t = "list") # (attr.cardinality = Many) THEN "CardinalityMismatch"
        ELSE IF failing = {} THEN "None"
        ELSE ElementCheck(tokens[CHOOSE i \in failing : \A j \in failing : i <= j], attr)

\* the first check the data fails, "None" when it fails none
FirstFailingCheck(data, schema) ==
    LET failing == {i \in 1..Len(data) : FieldCheck(data[i][1], data[i][2], schema) # "None"}
    IN  IF dict_get(data, schema.primary_key).t = "NoneType" THEN "MissingPrimaryKey"
        ELSE IF failing = {} THEN "None"
        ELSE LET i == CHOOSE i \in failing : \A j \in failing : i <= j
             IN  FieldCheck(data[i][1], data[i][2], schema)

\* C25: validate returns True exactly when the data fails no check, and
\* otherwise raises the first check it fails: MissingPrimaryKey, then per
\* field UnknownAttribute, CardinalityMismatch, RepresentationError and the
\* InvalidValue of the attribute's datatype.
C25_ValidateRaisesFirstFailingCheck ==
    outcome.op = "validate" =>
        /\ outcome.raised = [type |-> FirstFailingCheck(outcome.data, outcome.schema)]
        /\ outcome.raised = NoException => outcome.value = TRUE

\* a period text holds at most one "/"
AtMostOneSlash(s) == Cardinality({i \in 1..Len(s) : s[i] = SLASH}) <= 1

\* no string of the data, in a period field, holds more than one "/"
PeriodsSplitInTwo(data, schema) ==
    \A i \in 1..Len(data) :
        LET attr == schema_get(schema, data[i][1])
        IN  (attr # NoAttribute /\ attr.datatype = "period" /\ data[i][2].t = "str")
                => AtMostOneSlash(data[i][2].s)

\* what validate does for the period texts that split in two parts at most
ValidateRaisesFirstFailingCheckOfSplitPeriods ==
    (outcome.op = "validate" /\ PeriodsSplitInTwo(outcome.data, outcome.schema)) =>
        /\ outcome.raised = [type |-> FirstFailingCheck(outcome.data, outcome.schema)]
        /\ outcome.raised = NoException => outcome.value = TRUE

-----------------------------------------------------------------------------
(* C26 *)

\* what can be read from a log: its entries as the Entry objects stand, its
\* size, its blob map and its root hash
LogState(log, h) ==
    [entries |-> [i \in 1..Len(log.entries) |-> h[log.entries[i]]],
     size |-> log.size, blobs |-> log.blobs, digest |-> log_digest(log)]

DataUnchanged(step) ==
    LogState(step.post.data, step.post.heap) = LogState(step.pre.data, step.pre.heap)

MetadataUnchanged(step) ==
    LogState(step.post.metadata, step.post.heap)
        = LogState(step.pre.metadata, step.pre.heap)

IsScopeStep(step, scope) ==
    /\ step.command.action = "append-entry"
    /\ step.raised = NoException
    /\ step.pre.heap[step.command.entry].scope = scope

\* the stream without its append-entry commands of scope system
WithoutSystem(commands, h) ==
    SelectSeq(commands,
              LAMBDA c : ~(c.action = "append-entry" /\ h[c.entry].scope = "system"))

\* the steps of a collect that check an assertion
AssertSteps(steps) == SelectSeq(steps, LAMBDA step : step.command.action = "assert-root-hash")

\* what an assertion step did: the hash it compared with and what it raised
AssertOutcome(step) ==
    [expected |-> step.command.hash, actual |-> log_digest(step.pre.data),
     raised |-> step.raised]

\* the collect of the same stream without its system-scope commands, from
\* the logs the collect of outcome started from
CollectWithoutSystem ==
    LET first == outcome.steps[1].pre
    IN  collect(WithoutSystem(outcome.commands, first.heap), first.data, first.metadata,
                FALSE, first.heap)

-----------------------------------------------------------------------------
(* C27 *)

\* the blob hashes of the append-entry commands of the scope that the
\* collect consumed: the entry found its blob, and was then appended or
\* suppressed as a duplicate
ConsumedBlobHashes(steps, scope) ==
    {steps[i].pre.heap[steps[i].command.entry].blob_hash :
        i \in {j \in DOMAIN steps : IsScopeStep(steps[j], scope)}}

\* the blob hashes of the add-item commands of the collect
AddedBlobHashes(steps) ==
    {blob_digest(steps[i].command.blob) :
        i \in {j \in DOMAIN steps : steps[j].command.action = "add-item"}}

\* the blob map of the log holds what it held before the collect and the
\* blobs of the consumed entries of its scope, and nothing else
BlobMapIsConsumed(before, after, steps, scope) ==
    /\ DOMAIN after.blobs = DOMAIN before.blobs \cup ConsumedBlobHashes(steps, scope)
    /\ stats(after).total_blobs
           = Cardinality(DOMAIN before.blobs \cup ConsumedBlobHashes(steps, scope))

\* C27: after a collect a blob is in the blob map of a log exactly when it
\* was there before or an append-entry of the log's scope that refers to it
\* was consumed, appended or suppressed; so a blob that only an add-item
\* brought is in neither map and neither total-blobs, and a blob referred to
\* from both scopes is in both maps. From empty logs the map is exactly the
\* blobs of the consumed entries of the scope.
C27_BlobMapIsConsumedBlobs ==
    (outcome.op \in {"Register", "apply"} /\ Len(outcome.steps) > 0) =>
        LET steps == outcome.steps
            first == steps[1].pre
            last == steps[Len(steps)].post
            reg == registers[outcome.register]
        IN  /\ BlobMapIsConsumed(first.data, last.data, steps, "user")
            /\ BlobMapIsConsumed(first.metadata, last.metadata, steps, "system")
            /\ reg.log.blobs = last.data.blobs
            /\ reg.metalog.blobs = last.metadata.blobs
            /\ outcome.op = "Register" =>
                   /\ DOMAIN reg.log.blobs = ConsumedBlobHashes(steps, "user")
                   /\ DOMAIN reg.metalog.blobs = ConsumedBlobHashes(steps, "system")

\* a collect left a blob that only an add-item brought out of both maps,
\* and a blob referred to from both scopes is in both maps
C27_Witness ==
    /\ outcome.op = "apply"
    /\ Len(outcome.steps) > 0
    /\ LET steps == outcome.steps
           last == steps[Len(steps)].post
       IN  /\ \E d \in AddedBlobHashes(steps) :
                  d \notin DOMAIN last.data.blobs \cup DOMAIN last.metadata.blobs
           /\ \E d \in DOMAIN last.data.blobs : d \in DOMAIN last.metadata.blobs

\* a collect suppressed a duplicate entry whose blob is in the map of its log
C27_SuppressedWitness ==
    /\ outcome.op = "apply"
    /\ \E i \in DOMAIN outcome.steps :
           LET step == outcome.steps[i]
           IN  /\ IsScopeStep(step, "user")
               /\ Len(step.post.errors) = Len(step.pre.errors) + 1
               /\ step.pre.heap[step.command.entry].blob_hash \in DOMAIN step.post.data.blobs

-----------------------------------------------------------------------------
(* C28 *)

\* the uids of the attributes of the schema derived from the metadata log
SchemaUids(reg, h) ==
    [n \in 1..Len(schema_attrs(reg.metalog, h)) |-> schema_attrs(reg.metalog, h)[n].uid]

\* uid is set and the schema has at least two attributes, one of whose uid is
\* the register uid
IsReadyAsStated(reg, h) ==
    /\ reg.uid # NoUid
    /\ Len(SchemaUids(reg, h)) >= 2
    /\ \E n \in 1..Len(SchemaUids(reg, h)) : SchemaUids(reg, h)[n] = reg.uid

\* is_ready() is what the claim says it is, in every state
ReadyIsAsStated ==
    \A r \in DOMAIN registers : is_ready(registers[r], heap) = IsReadyAsStated(registers[r], heap)

\* C28: is_ready() is true exactly when uid is set and the schema has at
\* least two attributes, one with the uid of the register; a register that
\* is ready is ready after every Register.apply, whatever system-scope
\* entries the patch appends.
C28_ReadinessMovesForward ==
    [][/\ ReadyIsAsStated'
       /\ \A r \in DOMAIN registers :
              (outcome'.op = "apply" /\ is_ready(registers[r], heap))
                  => is_ready(registers'[r], heap')]_vars

-----------------------------------------------------------------------------
(* C30 *)

\* what can be read from a register: its two logs and its last-updated date
RegisterState(reg, h) ==
    [log |-> LogState(reg.log, h), metalog |-> LogState(reg.metalog, h),
     update_date |-> reg.update_date]

\* C30: a Register.apply that raises leaves the register as it was before
\* the call: both logs keep their entries, sizes, blob maps and root hashes,
\* and last-updated is unchanged.
C30_RaisingApplyChangesNothing ==
    [][(outcome'.op = "apply" /\ outcome'.raised # NoException)
           => RegisterState(registers'[outcome'.register], heap')
                  = RegisterState(registers[outcome'.register], heap)]_vars

\* last-updated is unchanged by a Register.apply that raises
RaisingApplyKeepsUpdateDate ==
    [][(outcome'.op = "apply" /\ outcome'.raised # NoException)
           => registers'[outcome'.register].update_date
                  = registers[outcome'.register].update_date]_vars

====
